---- MODULE Spec2Model ----
(***************************************************************************)
(* Model of find-enrich.mjs: the record loop (main, processRecord), the    *)
(* domain selector (cleanName, variants, tldsForCountry, score,            *)
(* bestDomainFor, verify) and the contact ranker (normalizePhone,          *)
(* isLikelyPhone, pickBestPhone, pickBestEmail).                           *)
(*                                                                         *)
(* A JavaScript string is modelled as a sequence of one-character strings, *)
(* so that endsWith, includes, split, replace and length are computed on   *)
(* the characters as the code computes them.  The empty string '' is << >>.*)
(***************************************************************************)
EXTENDS Integers, Sequences, FiniteSets, TLC

(***************************************************************************)
(* String helpers (the JavaScript String methods the code calls).          *)
(***************************************************************************)
Min(a, b) == IF a <= b THEN a ELSE b

Range(s) == {s[k] : k \in DOMAIN s}

\* s.endsWith(t)
EndsWith(s, t) ==
    /\ Len(t) <= Len(s)
    /\ \A k \in 1..Len(t) : s[Len(s) - Len(t) + k] = t[k]

\* s.startsWith(t)
StartsWith(s, t) ==
    /\ Len(t) <= Len(s)
    /\ \A k \in 1..Len(t) : s[k] = t[k]

\* s.includes(c) for a one-character c
IncludesChar(s, c) == \E k \in DOMAIN s : s[k] = c

\* s.slice(n): the string from 0-based index n on
SliceFrom(s, n) == IF n >= Len(s) THEN << >> ELSE SubSeq(s, n + 1, Len(s))

\* s.split(c)[k]-style helpers: index of the first c in s, 0 if none
RECURSIVE IndexOfFrom(_, _, _)
IndexOfFrom(s, c, k) ==
    IF k > Len(s) THEN 0
    ELSE IF s[k] = c THEN k
    ELSE IndexOfFrom(s, c, k + 1)

IndexOf(s, c) == IndexOfFrom(s, c, 1)

\* s.split(c): the pieces between the occurrences of the character c
\* ("" splits into one empty piece, as in JavaScript)
RECURSIVE Split(_, _)
Split(s, c) ==
    LET k == IndexOf(s, c) IN
    IF k = 0 THEN << s >>
    ELSE << SubSeq(s, 1, k - 1) >> \o Split(SliceFrom(s, k), c)

\* pieces.join(sep)
RECURSIVE Join(_, _)
Join(pieces, sep) ==
    IF Len(pieces) = 0 THEN << >>
    ELSE IF Len(pieces) = 1 THEN pieces[1]
    ELSE pieces[1] \o sep \o Join(Tail(pieces), sep)

\* s.replace(/[cls]+/g, rep): every maximal run of characters of cls
\* becomes one rep
RECURSIVE ReplaceRuns(_, _, _)
ReplaceRuns(s, cls, rep) ==
    IF Len(s) = 0 THEN << >>
    ELSE IF s[1] \in cls
         THEN IF Len(s) >= 2 /\ s[2] \in cls
              THEN ReplaceRuns(Tail(s), cls, rep)
              ELSE rep \o ReplaceRuns(Tail(s), cls, rep)
         ELSE << s[1] >> \o ReplaceRuns(Tail(s), cls, rep)

\* s.replace(/[cls]/g, ''): every character of cls is removed
RemoveChars(s, cls) == SelectSeq(s, LAMBDA c : c \notin cls)

Whitespace == {" ", "\t"}

RECURSIVE TrimLeft(_)
TrimLeft(s) ==
    IF Len(s) > 0 /\ s[1] \in Whitespace THEN TrimLeft(Tail(s)) ELSE s

RECURSIVE TrimRight(_)
TrimRight(s) ==
    IF Len(s) > 0 /\ s[Len(s)] \in Whitespace
    THEN TrimRight(SubSeq(s, 1, Len(s) - 1)) ELSE s

\* s.trim()
Trim(s) == TrimRight(TrimLeft(s))

UpperToLower ==
    [c \in {"A","B","C","D","E","F","G","H","I","J","K","L","M",
            "N","O","P","Q","R","S","T","U","V","W","X","Y","Z"} |->
       CASE c = "A" -> "a" [] c = "B" -> "b" [] c = "C" -> "c" [] c = "D" -> "d"
         [] c = "E" -> "e" [] c = "F" -> "f" [] c = "G" -> "g" [] c = "H" -> "h"
         [] c = "I" -> "i" [] c = "J" -> "j" [] c = "K" -> "k" [] c = "L" -> "l"
         [] c = "M" -> "m" [] c = "N" -> "n" [] c = "O" -> "o" [] c = "P" -> "p"
         [] c = "Q" -> "q" [] c = "R" -> "r" [] c = "S" -> "s" [] c = "T" -> "t"
         [] c = "U" -> "u" [] c = "V" -> "v" [] c = "W" -> "w" [] c = "X" -> "x"
         [] c = "Y" -> "y" [] c = "Z" -> "z"]

\* s.toLowerCase()
ToLowerCase(s) ==
    [k \in DOMAIN s |-> IF s[k] \in DOMAIN UpperToLower THEN UpperToLower[s[k]] ELSE s[k]]

Digits == {"0","1","2","3","4","5","6","7","8","9"}

Letters == DOMAIN UpperToLower \cup {UpperToLower[c] : c \in DOMAIN UpperToLower}

(***************************************************************************)
(* Domain candidate generation.                                            *)
(***************************************************************************)
CleanDrop ==
    {<<"l","i","m","i","t","e","d">>,
     <<"l","t","d">>,
     <<"p","l","c">>,
     <<"l","l","p">>,
     <<"i","n","c">>,
     <<"c","o","r","p">>,
     <<"c","o","r","p","o","r","a","t","i","o","n">>,
     <<"c","o","m","p","a","n","y">>,
     <<"t","e","c","h">>,
     <<"t","e","c","h","n","o","l","o","g","i","e","s">>,
     <<"t","e","c","h","n","o","l","o","g","y">>,
     <<"s","o","l","u","t","i","o","n","s">>,
     <<"s","o","l","u","t","i","o","n">>,
     <<"g","r","o","u","p">>,
     <<"h","o","l","d","i","n","g","s">>,
     <<"s","e","r","v","i","c","e","s">>,
     <<"c","o","n","s","u","l","t","i","n","g">>,
     <<"c","o","n","s","u","l","t","a","n","c","y">>,
     <<"s","t","u","d","i","o">>,
     <<"l","a","b","s">>,
     <<"l","a","b">>,
     <<"d","i","g","i","t","a","l">>,
     <<"g","l","o","b","a","l">>,
     <<"i","n","t","e","r","n","a","t","i","o","n","a","l">>,
     <<"u","k">>,
     <<"c","o">>}

\* the character class of cleanName's first replace
CleanPunct ==
    {".",",","/","\\","'","\"","&","(",")","[","]","{","}","!","@","#","$",
     "%","^","*","?","+",":","="}

cleanName(raw) ==
    LET s == Trim(ReplaceRuns(ReplaceRuns(ToLowerCase(raw), CleanPunct, <<" ">>),
                              Whitespace, <<" ">>))
    IN  Join(SelectSeq(Split(s, " "), LAMBDA t : t \notin CleanDrop), <<" ">>)

\* new Set(...) / v.add(x): insertion order, no duplicates
SetAdd(v, x) == IF x \in Range(v) THEN v ELSE Append(v, x)

Vowels == {"a","e","i","o","u"}

\* parts.slice(0,-1).map(p => p[0]).join('')
RECURSIVE Initials(_)
Initials(parts) ==
    IF Len(parts) <= 1 THEN << >>
    ELSE << parts[1][1] >> \o Initials(Tail(parts))

variants(name) ==
    LET v0       == SetAdd(SetAdd(SetAdd(<< >>, name),
                                  ReplaceRuns(name, Whitespace, << >>)),
                           ReplaceRuns(name, Whitespace, <<"-">>))
        parts    == SelectSeq(Split(name, " "), LAMBDA p : Len(p) > 0)
        noVowels == ReplaceRuns(RemoveChars(name, Vowels), Whitespace, << >>)
        v1       == IF Len(noVowels) >= 5 THEN SetAdd(v0, noVowels) ELSE v0
        last     == parts[Len(parts)]
    IN  IF Len(parts) >= 2
        THEN SetAdd(SetAdd(SetAdd(v1, parts[1] \o last),
                           parts[1] \o <<"-">> \o last),
                    Initials(parts) \o last)
        ELSE v1

TldsCommon ==
    <<<<".","c","o","m">>,
      <<".","c","o",".","u","k">>,
      <<".","c","o">>,
      <<".","a","i">>,
      <<".","i","o">>,
      <<".","n","e","t">>,
      <<".","o","r","g">>,
      <<".","u","k">>>>

TldsUK ==
    <<<<".","c","o",".","u","k">>,
      <<".","u","k">>,
      <<".","c","o","m">>,
      <<".","c","o">>,
      <<".","a","i">>,
      <<".","i","o">>,
      <<".","n","e","t">>,
      <<".","o","r","g">>>>

UKNames ==
    {<<"u","k">>,
     <<"u","n","i","t","e","d"," ","k","i","n","g","d","o","m">>,
     <<"e","n","g","l","a","n","d">>,
     <<"s","c","o","t","l","a","n","d">>,
     <<"w","a","l","e","s">>,
     <<"n","o","r","t","h","e","r","n"," ","i","r","e","l","a","n","d">>}

tldsForCountry(country) ==
    IF Len(country) = 0 THEN TldsCommon
    ELSE IF ToLowerCase(country) \in UKNames THEN TldsUK
    ELSE TldsCommon

DotCoUk == <<".","c","o",".","u","k">>

DotCom == <<".","c","o","m">>

score(domain) ==
    (IF EndsWith(domain, DotCoUk) THEN 6 ELSE 0)
    + (IF EndsWith(domain, DotCom) THEN 5 ELSE 0)
    + (IF IncludesChar(domain, "-") THEN -1 ELSE 0)
    + (IF Len(domain) <= 12 THEN 1 ELSE 0)

\* the strong-hit test without the test of the suffix
IsStrongAnyAlive(r) == r.ok

\* r.ok && (r.domain.endsWith('.co.uk') || r.domain.endsWith('.com'))
IsStrong(r) == r.ok /\ (EndsWith(r.domain, DotCoUk) \/ EndsWith(r.domain, DotCom))

\* items.sort((a,b) => key(b) - key(a)) with keys[k] the key of items[k]:
\* the stable sort of Array.prototype.sort, largest key first
SortDescByKey(items, keys) ==
    LET prs == [k \in DOMAIN items |-> << items[k], keys[k] >>]
        RECURSIVE Take(_)
        Take(ks) ==
            IF ks = {} THEN << >>
            ELSE LET m == CHOOSE x \in ks : \A y \in ks : y <= x
                     grp == SelectSeq(prs, LAMBDA p : p[2] = m)
                 IN  [k \in DOMAIN grp |-> grp[k][1]] \o Take(ks \ {m})
    IN  Take(Range(keys))

\* the same sort with the comparator turned round (smallest key first)
SortAscByKey(items, keys) ==
    LET prs == [k \in DOMAIN items |-> << items[k], keys[k] >>]
        RECURSIVE Take(_)
        Take(ks) ==
            IF ks = {} THEN << >>
            ELSE LET m == CHOOSE x \in ks : \A y \in ks : y >= x
                     grp == SelectSeq(prs, LAMBDA p : p[2] = m)
                 IN  [k \in DOMAIN grp |-> grp[k][1]] \o Take(ks \ {m})
    IN  Take(Range(keys))

\* for (n of variants) for (t of tlds) cands.push(n + t)
CrossTlds(vs, tlds) ==
    [k \in 1..(Len(vs) * Len(tlds)) |->
        vs[((k - 1) \div Len(tlds)) + 1] \o tlds[((k - 1) % Len(tlds)) + 1]]

\* cands.sort((a,b) => score(b) - score(a)), comparator turned round
SortCandsAscending(cands) == SortAscByKey(cands, [k \in DOMAIN cands |-> score(cands[k])])

\* cands.sort((a,b) => score(b) - score(a))
SortCands(cands) == SortDescByKey(cands, [k \in DOMAIN cands |-> score(cands[k])])

\* the sorted candidate list of bestDomainFor for a non-empty cleaned name
Candidates(cleaned, country) ==
    SortCands(CrossTlds(variants(cleaned), tldsForCountry(country)))

(***************************************************************************)
(* Domain verification and selection.                                      *)
(* The network is an input: net.dns is the set of domains for which at     *)
(* least one of the A, AAAA and MX lookups answers, net.http the set of    *)
(* domains that answer an HTTP probe.                                      *)
(***************************************************************************)
\* the cap of bestDomainFor: TOP = Math.min(40, cands.length)
TopCap == 40

\* the batch length of bestDomainFor: i += 5, cands.slice(i, i+5)
BatchLen == 5

dnsAlive(domain, net) == domain \in net.dns

httpAlive(domain, net) == domain \in net.http

\* a verification that reports every probe result but marks the domain ok
\* regardless of them
verifyAlwaysOk(domain, net) ==
    [domain |-> domain, dnsOk |-> dnsAlive(domain, net),
     httpOk |-> httpAlive(domain, net), ok |-> TRUE]

verify(domain, net) ==
    LET dnsOk  == dnsAlive(domain, net)
        httpOk == httpAlive(domain, net)
    IN  [domain |-> domain, dnsOk |-> dnsOk, httpOk |-> httpOk,
         ok |-> dnsOk \/ httpOk]

\* pick: null
Null == [null |-> TRUE]

\* checked.filter(r => r.ok).sort((a,b) => score(b.domain) - score(a.domain))
Verified(checked) ==
    LET alive == SelectSeq(checked, LAMBDA r : r.ok)
    IN  SortDescByKey(alive, [k \in DOMAIN alive |-> score(alive[k].domain)])

\* the state of one call of bestDomainFor at the head of its loop
\*   cands: the sorted candidates, i: the loop index, checked: the results
\*   so far, done: the call has returned, pick: its pick, early: it
\*   returned from inside the loop
BDEnter(name, country) ==
    LET cleaned == cleanName(name) IN
    IF Len(cleaned) = 0
    THEN [cands |-> << >>, i |-> 0, checked |-> << >>, done |-> TRUE,
          pick |-> Null, early |-> FALSE]
    ELSE [cands |-> Candidates(cleaned, country), i |-> 0, checked |-> << >>,
          done |-> FALSE, pick |-> Null, early |-> FALSE]

Top(bd) == Min(TopCap, Len(bd.cands))

\* cands.slice(i, i+6): a slice one longer than the step of the loop
BatchOverlong(bd) == SubSeq(bd.cands, bd.i + 1, Min(bd.i + BatchLen + 1, Len(bd.cands)))

\* cands.slice(i, i+5)
Batch(bd) == SubSeq(bd.cands, bd.i + 1, Min(bd.i + BatchLen, Len(bd.cands)))

\* one iteration of the loop that goes on to the next batch whatever the
\* batch's results are
BDStepNoEarlyStop(bd, net) ==
    LET batch == Batch(bd)
        res   == [k \in DOMAIN batch |-> verify(batch[k], net)]
    IN  [bd EXCEPT !.checked = bd.checked \o res, !.i = bd.i + BatchLen]

\* one iteration of the loop of bestDomainFor: verify the batch, append
\* the results, return on a strong hit, else go on to the next batch
BDStep(bd, net) ==
    LET batch    == Batch(bd)
        res      == [k \in DOMAIN batch |-> verify(batch[k], net)]
        checked  == bd.checked \o res
        \* res.find(IsStrong) as a sequence of length 0 (undefined) or 1
        hits     == SelectSeq(res, IsStrong)
        strong   == IF Len(hits) = 0 THEN << >> ELSE << hits[1] >>
        verified == Verified(checked)
    IN  IF Len(strong) > 0
        THEN [bd EXCEPT !.checked = checked, !.done = TRUE, !.early = TRUE,
                        !.pick = IF Len(verified) > 0 THEN verified[1] ELSE strong[1]]
        ELSE [bd EXCEPT !.checked = checked, !.i = bd.i + BatchLen]

\* the return after the loop that takes the first checked result, alive
\* or not
BDFinishUnfiltered(bd) ==
    [bd EXCEPT !.done = TRUE,
               !.pick = IF Len(bd.checked) > 0 THEN bd.checked[1] ELSE Null]

\* the return after the loop: the best verified candidate, or null
BDFinish(bd) ==
    LET verified == Verified(bd.checked)
    IN  [bd EXCEPT !.done = TRUE,
                   !.pick = IF Len(verified) > 0 THEN verified[1] ELSE Null]

\* bestDomainFor run from a loop head to its return
RECURSIVE BDRun(_, _)
BDRun(bd, net) ==
    IF bd.done THEN bd
    ELSE IF bd.i < Top(bd) THEN BDRun(BDStep(bd, net), net)
    ELSE BDFinish(bd)

\* bestDomainFor(name, country) on the network net
bestDomainFor(name, country, net) == BDRun(BDEnter(name, country), net)

(***************************************************************************)
(* Contact ranking.  The code's scores are multiples of 0.5; the model     *)
(* keeps every score doubled, which leaves every comparison unchanged.     *)
(***************************************************************************)
AllDigits(s) == \A k \in DOMAIN s : s[k] \in Digits

normalizePhone(p) ==
    IF Len(p) = 0 THEN << >>
    ELSE LET s0 == SelectSeq(p, LAMBDA c : c = "+" \/ c \in Digits)
             s1 == IF StartsWith(s0, <<"0","0","4","4">>)
                   THEN <<"+">> \o SliceFrom(s0, 2) ELSE s0
         IN  IF StartsWith(s1, <<"4","4">>) /\ ~StartsWith(s1, <<"+">>)
             THEN <<"+">> \o s1 ELSE s1

\* /^\+?\d{10,15}$/.test(n)
isLikelyPhone(n) ==
    LET d == IF StartsWith(n, <<"+">>) THEN Tail(n) ELSE n
    IN  Len(d) >= 10 /\ Len(d) <= 15 /\ AllDigits(d)

\* /^\+44\d{9,11}$/.test(n)
IsUKShape(n) ==
    /\ StartsWith(n, <<"+","4","4">>)
    /\ Len(n) - 3 >= 9 /\ Len(n) - 3 <= 11
    /\ AllDigits(SliceFrom(n, 3))

\* the score of pickBestPhone, doubled
PhoneScore(n) ==
    (IF IsUKShape(n) THEN 4 ELSE 0)
    + (IF Len(n) >= 11 /\ Len(n) <= 13 THEN 1 ELSE 0)

\* pickBestPhone without the plausibility filter
pickBestPhoneUnfiltered(phones) ==
    LET arr == [k \in DOMAIN phones |-> normalizePhone(phones[k])]
    IN  IF Len(arr) = 0 THEN << >>
        ELSE SortDescByKey(arr, [k \in DOMAIN arr |-> PhoneScore(arr[k])])[1]

pickBestPhone(phones) ==
    LET arr == SelectSeq([k \in DOMAIN phones |-> normalizePhone(phones[k])],
                         isLikelyPhone)
    IN  IF Len(arr) = 0 THEN << >>
        ELSE SortDescByKey(arr, [k \in DOMAIN arr |-> PhoneScore(arr[k])])[1]

freeDomains ==
    {<<"g","m","a","i","l",".","c","o","m">>,
     <<"y","a","h","o","o",".","c","o","m">>,
     <<"h","o","t","m","a","i","l",".","c","o","m">>,
     <<"o","u","t","l","o","o","k",".","c","o","m">>,
     <<"l","i","v","e",".","c","o","m">>,
     <<"a","o","l",".","c","o","m">>,
     <<"i","c","l","o","u","d",".","c","o","m">>,
     <<"p","r","o","t","o","n",".","m","e">>,
     <<"p","r","o","t","o","n","m","a","i","l",".","c","o","m">>}

ranks ==
    <<<<"i","n","f","o","@">>,
      <<"c","o","n","t","a","c","t","@">>,
      <<"h","e","l","l","o","@">>,
      <<"s","u","p","p","o","r","t","@">>,
      <<"e","n","q","u","i","r","i","e","s","@">>>>

\* e.split('@')[1] || '' : the piece between the first and the second '@'
AfterAt(e) ==
    LET pieces == Split(e, "@") IN
    IF Len(pieces) >= 2 THEN pieces[2] ELSE << >>

\* the test of pickBestEmail that puts an address in the preferred pool
InPreferPool(e, preferredDomain) ==
    LET d == ToLowerCase(AfterAt(e)) IN
    /\ Len(preferredDomain) > 0
    /\ Len(d) > 0
    /\ (EndsWith(preferredDomain, d) \/ EndsWith(d, preferredDomain))

\* the score of pickBestEmail, doubled
EmailScore(e) ==
    LET lower == ToLowerCase(e)
        hit(k) == IF StartsWith(lower, ranks[k]) THEN 2 * (Len(ranks) - (k - 1)) ELSE 0
    IN  hit(1) + hit(2) + hit(3) + hit(4) + hit(5)
        + (IF ~IncludesChar(lower, "+") THEN 1 ELSE 0)
        + (IF AfterAt(lower) \notin freeDomains THEN 1 ELSE 0)

pickBestEmail(emails, preferredDomain) ==
    LET arr    == SelectSeq([k \in DOMAIN emails |-> Trim(emails[k])],
                            LAMBDA e : Len(e) > 0)
        prefer == SelectSeq(arr, LAMBDA e : InPreferPool(e, preferredDomain))
        others == SelectSeq(arr, LAMBDA e : ~InPreferPool(e, preferredDomain))
        pool   == IF Len(prefer) > 0 THEN prefer ELSE others
    IN  IF Len(arr) = 0 THEN << >>
        ELSE SortDescByKey(pool, [k \in DOMAIN pool |-> EmailScore(pool[k])])[1]

(***************************************************************************)
(* Brand matching.                                                         *)
(***************************************************************************)
TokenDrop ==
    {<<"l","i","m","i","t","e","d">>,
     <<"l","t","d">>,
     <<"p","l","c">>,
     <<"l","l","p">>,
     <<"i","n","c">>,
     <<"c","o","r","p">>,
     <<"c","o","r","p","o","r","a","t","i","o","n">>,
     <<"c","o","m","p","a","n","y">>,
     <<"g","r","o","u","p">>,
     <<"h","o","l","d","i","n","g","s">>,
     <<"s","e","r","v","i","c","e","s">>,
     <<"u","k">>,
     <<"c","o">>,
     <<"c","i","c">>}

\* text.includes(t)
IncludesStr(text, t) ==
    \E k \in 0..(Len(text) - Len(t)) : SubSeq(text, k + 1, k + Len(t)) = t

\* name.toLowerCase().replace(/[^\p{L}\p{N}\s-]/gu, ' ').split(/\s+/)
\*     .filter(Boolean).filter(t => !drop.has(t))
tokenizeCompany(name) ==
    LET keep(c) == c \in Letters \/ c \in Digits \/ c \in Whitespace \/ c = "-"
        lower   == ToLowerCase(name)
        spaced  == [k \in DOMAIN lower |-> IF keep(lower[k]) THEN lower[k] ELSE " "]
        pieces  == Split(ReplaceRuns(spaced, Whitespace, <<" ">>), " ")
    IN  SelectSeq(pieces, LAMBDA t : Len(t) > 0 /\ t \notin TokenDrop)

\* the hits and the token count of brandMatchScore (the score is their
\* quotient); << 0, 1 >> stands for the score 0 of the early returns
brandMatchScore(company, htmlText) ==
    LET tokens == tokenizeCompany(company)
        text   == ToLowerCase(htmlText)
        hits   == Cardinality({k \in DOMAIN tokens :
                                 Len(tokens[k]) >= 3 /\ IncludesStr(text, tokens[k])})
    IN  IF Len(company) = 0 \/ Len(htmlText) = 0 \/ Len(tokens) = 0
        THEN << 0, 1 >>
        ELSE << hits, Len(tokens) >>

\* BRAND_OK = bm >= 0.4 for bm = hits / tokens
BrandOk(bm) == 10 * bm[1] >= 4 * bm[2]

(***************************************************************************)
(* Contact extraction.                                                     *)
(***************************************************************************)
\* the characters with codes 32..126, in code order ("bq" stands for the
\* backquote, code 96)
Ascii ==
    <<" ","!","\"","#","$","%","&","'","(",")","*","+",",","-",".","/",
      "0","1","2","3","4","5","6","7","8","9",":",";","<","=",">","?",
      "@","A","B","C","D","E","F","G","H","I","J","K","L","M","N","O",
      "P","Q","R","S","T","U","V","W","X","Y","Z","[","\\","]","^","_",
      "bq","a","b","c","d","e","f","g","h","i","j","k","l","m","n","o",
      "p","q","r","s","t","u","v","w","x","y","z","{","|","}","~">>

\* String.fromCharCode(c); a code outside 32..126 gives a character that
\* is in no character class of the model
FromCharCode(c) == IF c >= 32 /\ c <= 126 THEN Ascii[c - 31] ELSE "\n"

HexValue ==
    [c \in Digits \cup {"a","b","c","d","e","f"} |->
       CASE c = "0" -> 0 [] c = "1" -> 1 [] c = "2" -> 2 [] c = "3" -> 3
         [] c = "4" -> 4 [] c = "5" -> 5 [] c = "6" -> 6 [] c = "7" -> 7
         [] c = "8" -> 8 [] c = "9" -> 9 [] c = "a" -> 10 [] c = "b" -> 11
         [] c = "c" -> 12 [] c = "d" -> 13 [] c = "e" -> 14 [] c = "f" -> 15]

\* parseInt(hex.slice(n, n + 2), 16) for two hexadecimal digits at the
\* 0-based index n
ParseHexByte(hex, n) == 16 * HexValue[hex[n + 1]] + HexValue[hex[n + 2]]

\* a ^ b on bytes
RECURSIVE Xor(_, _)
Xor(a, b) ==
    IF a = 0 /\ b = 0 THEN 0
    ELSE (((a % 2) + (b % 2)) % 2) + 2 * Xor(a \div 2, b \div 2)

\* decodeCfEmail(hex) for a string of an even number of hexadecimal digits
decodeCfEmail(hex) ==
    IF Len(hex) < 2 THEN << >>
    ELSE LET e == ParseHexByte(hex, 0)
         IN  [k \in 1..((Len(hex) - 2) \div 2) |->
                 FromCharCode(Xor(ParseHexByte(hex, 2 * k), e))]

\* the anchored form of EMAIL_RE: [A-Z0-9._%+-]+ @ [A-Z0-9.-]+ \. [A-Z]{2,}
\* (case-insensitive)
LocalChars == Letters \cup Digits \cup {".","_","%","+","-"}

HostChars == Letters \cup Digits \cup {".","-"}

MatchesEmailRe(s) ==
    \E at \in DOMAIN s : \E dot \in DOMAIN s :
        /\ s[at] = "@" /\ s[dot] = "."
        /\ at >= 2 /\ dot >= at + 2 /\ Len(s) >= dot + 2
        /\ \A k \in 1..(at - 1) : s[k] \in LocalChars
        /\ \A k \in (at + 1)..(dot - 1) : s[k] \in HostChars
        /\ \A k \in (dot + 1)..Len(s) : s[k] \in Letters

\* foundEmails.add(x) for every x of xs, in order
RECURSIVE AddAll(_, _)
AddAll(set, xs) ==
    IF Len(xs) = 0 THEN set ELSE AddAll(SetAdd(set, xs[1]), Tail(xs))

\* if (m) set.add(m.trim()): the non-empty members of xs, trimmed
NonEmptyTrimmed(xs) ==
    LET kept == SelectSeq(xs, LAMBDA x : Len(x) > 0)
    IN  [k \in DOMAIN kept |-> Trim(kept[k])]

\* m = x.trim(); if (m) set.add(m): the trimmed members of xs that are
\* non-empty
TrimmedNonEmpty(xs) ==
    SelectSeq([k \in DOMAIN xs |-> Trim(xs[k])], LAMBDA x : Len(x) > 0)

\* A fetched page is a record
\*   html      : the body getHtml returns ('' when the fetch fails)
\*   mailto    : the href targets of a[href^="mailto:"], prefix removed
\*   tel       : the href targets of a[href^="tel:"], prefix removed
\*   cfemail   : the data-cfemail attribute values
\*   dataEmail : the data-email attribute values
\*   textEmails: the substrings of the text that EMAIL_RE matches
\*   textPhones: the substrings of the text that PHONE_RE matches
\*   links     : the a[href] values
NoPage ==
    [html |-> << >>, mailto |-> << >>, tel |-> << >>, cfemail |-> << >>,
     dataEmail |-> << >>, textEmails |-> << >>, textPhones |-> << >>,
     links |-> << >>]

\* extractContactsFromUrl on the page the fetch of the URL returned
extractContacts(page) ==
    IF Len(page.html) = 0 THEN [emails |-> << >>, phones |-> << >>]
    ELSE LET decoded == [k \in DOMAIN page.cfemail |-> decodeCfEmail(page.cfemail[k])]
             e1 == AddAll(<< >>, NonEmptyTrimmed(page.mailto))
             e2 == AddAll(e1, NonEmptyTrimmed(decoded))
             e3 == AddAll(e2, TrimmedNonEmpty(page.dataEmail))
             e4 == AddAll(e3, page.textEmails)
             p1 == AddAll(<< >>, NonEmptyTrimmed(page.tel))
             p2 == AddAll(p1, page.textPhones)
         IN  [emails |-> e4, phones |-> p2]

(***************************************************************************)
(* Contact discovery.  A site is the input: Fetch gives the page a URL     *)
(* answers with (NoPage when the fetch fails).                             *)
(***************************************************************************)
SeedPaths ==
    <<<< >>,
      <<"c","o","n","t","a","c","t">>,
      <<"c","o","n","t","a","c","t","-","u","s">>,
      <<"c","o","n","t","a","c","t","s">>,
      <<"a","b","o","u","t">>,
      <<"a","b","o","u","t","-","u","s">>,
      <<"t","e","a","m">>,
      <<"i","m","p","r","i","n","t">>,
      <<"l","e","g","a","l">>,
      <<"p","r","i","v","a","c","y">>>>

Https == <<"h","t","t","p","s",":","/","/">>

Http == <<"h","t","t","p",":","/","/">>

\* new URL(...) accepts the host of https://domain/
ValidHost(domain) == Len(domain) > 0 /\ \A k \in DOMAIN domain : domain[k] \in HostChars

\* `https://${domain}/`
BaseUrl(domain) == Https \o domain \o <<"/">>

\* makeAbs(baseUrl, href) for baseUrl = https://domain/ and an href that is
\* an absolute http(s) URL, a path from the root, or a relative path;
\* '' when new URL throws
makeAbs(domain, href) ==
    IF StartsWith(href, Https) \/ StartsWith(href, Http) THEN href
    ELSE IF ~ValidHost(domain) THEN << >>
    ELSE IF StartsWith(href, <<"/">>) THEN BaseUrl(domain) \o Tail(href)
    ELSE BaseUrl(domain) \o href

\* getHtml(url) and the parse of its markup, on the site
Fetch(site, url) == IF url \in DOMAIN site.pages THEN site.pages[url] ELSE NoPage

\* the iteration without seen.add(url)
VisitForgetsUrl(st, url, site) ==
    LET c == extractContacts(Fetch(site, url))
    IN  [seen   |-> st.seen,
         emails |-> AddAll(st.emails, c.emails),
         phones |-> AddAll(st.phones, c.phones),
         count  |-> st.count + 1]

\* one iteration of either crawl loop of discoverContacts for a URL that
\* is not skipped; st = [seen, emails, phones, count]
Visit(st, url, site) ==
    LET c == extractContacts(Fetch(site, url))
    IN  [seen   |-> st.seen \cup {url},
         emails |-> AddAll(st.emails, c.emails),
         phones |-> AddAll(st.phones, c.phones),
         count  |-> st.count + 1]

\* for (const url of seeds) { if (!url || seen.has(url)) continue; ... }
RECURSIVE CrawlSeeds(_, _, _)
CrawlSeeds(st, urls, site) ==
    IF Len(urls) = 0 THEN st
    ELSE IF Len(urls[1]) = 0 \/ urls[1] \in st.seen
         THEN CrawlSeeds(st, Tail(urls), site)
         ELSE CrawlSeeds(Visit(st, urls[1], site), Tail(urls), site)

\* the most internal links the second loop crawls: if (count >= 3) break
MaxInternal == 3

\* for (const u of internal) { if (count >= 3) break;
\*                             if (seen.has(u)) continue; ... }
RECURSIVE CrawlInternal(_, _, _)
CrawlInternal(st, urls, site) ==
    IF Len(urls) = 0 \/ st.count >= MaxInternal THEN st
    ELSE IF urls[1] \in st.seen
         THEN CrawlInternal(st, Tail(urls), site)
         ELSE CrawlInternal(Visit(st, urls[1], site), Tail(urls), site)

\* the same-origin absolute URLs of the homepage's links, each once
InternalLinks(domain, links) ==
    LET abs == [k \in DOMAIN links |-> makeAbs(domain, links[k])]
    IN  AddAll(<< >>, SelectSeq(abs, LAMBDA u :
                  Len(u) > 0 /\ StartsWith(u, BaseUrl(domain))))

\* discoverContacts(domain) on the site; site.home2 is the page the second
\* fetch of the homepage returns
discoverContacts(domain, site) ==
    LET seeds == [k \in DOMAIN SeedPaths |-> makeAbs(domain, SeedPaths[k])]
        st0   == [seen |-> {}, emails |-> << >>, phones |-> << >>, count |-> 0]
        st1   == CrawlSeeds(st0, seeds, site)
        home  == IF ValidHost(domain) THEN site.home2 ELSE NoPage
        st2   == IF Len(home.html) > 0
                 THEN CrawlInternal([st1 EXCEPT !.count = 0],
                                    InternalLinks(domain, home.links), site)
                 ELSE st1
    IN  [email     |-> pickBestEmail(st2.emails, domain),
         phone     |-> pickBestPhone(st2.phones),
         brandText |-> home.html,
         visited   |-> st2.seen]

(***************************************************************************)
(* SIC -> Industry.  The section names are the source's, with the dash     *)
(* written as "-".                                                         *)
(***************************************************************************)
SIC_SECTIONS ==
    <<[lo |-> 1, hi |-> 3, name |->
         <<"A"," ","-"," ","A","g","r","i","c","u","l","t","u","r","e",","," ","F","o","r","e","s","t","r","y"," ","&"," ","F","i","s","h","i","n","g">>],
      [lo |-> 5, hi |-> 9, name |->
         <<"B"," ","-"," ","M","i","n","i","n","g"," ","&"," ","Q","u","a","r","r","y","i","n","g">>],
      [lo |-> 10, hi |-> 33, name |->
         <<"C"," ","-"," ","M","a","n","u","f","a","c","t","u","r","i","n","g">>],
      [lo |-> 35, hi |-> 35, name |->
         <<"D"," ","-"," ","E","l","e","c","t","r","i","c","i","t","y",","," ","G","a","s",","," ","S","t","e","a","m"," ","&"," ","A","i","r"," ","C","o","n","d","i","t","i","o","n","i","n","g">>],
      [lo |-> 36, hi |-> 39, name |->
         <<"E"," ","-"," ","W","a","t","e","r"," ","S","u","p","p","l","y",";"," ","S","e","w","e","r","a","g","e",","," ","W","a","s","t","e"," ","M","a","n","a","g","e","m","e","n","t"," ","&"," ","R","e","m","e","d","i","a","t","i","o","n">>],
      [lo |-> 41, hi |-> 43, name |->
         <<"F"," ","-"," ","C","o","n","s","t","r","u","c","t","i","o","n">>],
      [lo |-> 45, hi |-> 47, name |->
         <<"G"," ","-"," ","W","h","o","l","e","s","a","l","e"," ","&"," ","R","e","t","a","i","l"," ","T","r","a","d","e",";"," ","R","e","p","a","i","r"," ","o","f"," ","M","o","t","o","r"," ","V","e","h","i","c","l","e","s"," ","&"," ","M","o","t","o","r","c","y","c","l","e","s">>],
      [lo |-> 49, hi |-> 53, name |->
         <<"H"," ","-"," ","T","r","a","n","s","p","o","r","t","a","t","i","o","n"," ","&"," ","S","t","o","r","a","g","e">>],
      [lo |-> 55, hi |-> 56, name |->
         <<"I"," ","-"," ","A","c","c","o","m","m","o","d","a","t","i","o","n"," ","&"," ","F","o","o","d"," ","S","e","r","v","i","c","e"," ","A","c","t","i","v","i","t","i","e","s">>],
      [lo |-> 58, hi |-> 63, name |->
         <<"J"," ","-"," ","I","n","f","o","r","m","a","t","i","o","n"," ","&"," ","C","o","m","m","u","n","i","c","a","t","i","o","n">>],
      [lo |-> 64, hi |-> 66, name |->
         <<"K"," ","-"," ","F","i","n","a","n","c","i","a","l"," ","&"," ","I","n","s","u","r","a","n","c","e"," ","A","c","t","i","v","i","t","i","e","s">>],
      [lo |-> 68, hi |-> 68, name |->
         <<"L"," ","-"," ","R","e","a","l"," ","E","s","t","a","t","e"," ","A","c","t","i","v","i","t","i","e","s">>],
      [lo |-> 69, hi |-> 75, name |->
         <<"M"," ","-"," ","P","r","o","f","e","s","s","i","o","n","a","l",","," ","S","c","i","e","n","t","i","f","i","c"," ","&"," ","T","e","c","h","n","i","c","a","l"," ","A","c","t","i","v","i","t","i","e","s">>],
      [lo |-> 77, hi |-> 82, name |->
         <<"N"," ","-"," ","A","d","m","i","n","i","s","t","r","a","t","i","v","e"," ","&"," ","S","u","p","p","o","r","t"," ","S","e","r","v","i","c","e"," ","A","c","t","i","v","i","t","i","e","s">>],
      [lo |-> 84, hi |-> 84, name |->
         <<"O"," ","-"," ","P","u","b","l","i","c"," ","A","d","m","i","n","i","s","t","r","a","t","i","o","n"," ","&"," ","D","e","f","e","n","c","e",";"," ","C","o","m","p","u","l","s","o","r","y"," ","S","o","c","i","a","l"," ","S","e","c","u","r","i","t","y">>],
      [lo |-> 85, hi |-> 85, name |->
         <<"P"," ","-"," ","E","d","u","c","a","t","i","o","n">>],
      [lo |-> 86, hi |-> 88, name |->
         <<"Q"," ","-"," ","H","u","m","a","n"," ","H","e","a","l","t","h"," ","&"," ","S","o","c","i","a","l"," ","W","o","r","k"," ","A","c","t","i","v","i","t","i","e","s">>],
      [lo |-> 90, hi |-> 93, name |->
         <<"R"," ","-"," ","A","r","t","s",","," ","E","n","t","e","r","t","a","i","n","m","e","n","t"," ","&"," ","R","e","c","r","e","a","t","i","o","n">>],
      [lo |-> 94, hi |-> 96, name |->
         <<"S"," ","-"," ","O","t","h","e","r"," ","S","e","r","v","i","c","e"," ","A","c","t","i","v","i","t","i","e","s">>],
      [lo |-> 97, hi |-> 98, name |->
         <<"T"," ","-"," ","A","c","t","i","v","i","t","i","e","s"," ","o","f"," ","H","o","u","s","e","h","o","l","d","s"," ","a","s"," ","E","m","p","l","o","y","e","r","s",";"," ","U","n","d","i","f","f","e","r","e","n","t","i","a","t","e","d"," ","G","o","o","d","s","-"," ","&"," ","S","e","r","v","i","c","e","s","-","P","r","o","d","u","c","i","n","g"," ","A","c","t","i","v","i","t","i","e","s"," ","o","f"," ","H","o","u","s","e","h","o","l","d","s"," ","f","o","r"," ","O","w","n"," ","U","s","e">>],
      [lo |-> 99, hi |-> 99, name |->
         <<"U"," ","-"," ","A","c","t","i","v","i","t","i","e","s"," ","o","f"," ","E","x","t","r","a","t","e","r","r","i","t","o","r","i","a","l"," ","O","r","g","a","n","i","s","a","t","i","o","n","s"," ","&"," ","B","o","d","i","e","s">>]>>

\* parseInt(s, 10) of a string without leading white space, as a sequence
\* of length 0 (NaN) or 1: an optional sign and the longest run of digits
ParseInt(s) ==
    LET neg  == Len(s) > 0 /\ s[1] = "-"
        body == IF Len(s) > 0 /\ s[1] \in {"-", "+"} THEN Tail(s) ELSE s
        RECURSIVE Value(_, _)
        Value(k, acc) ==
            IF k > Len(body) \/ body[k] \notin Digits THEN acc
            ELSE Value(k + 1, 10 * acc + HexValue[body[k]])
    IN  IF Len(body) = 0 \/ body[1] \notin Digits THEN << >>
        ELSE << IF neg THEN 0 - Value(1, 0) ELSE Value(1, 0) >>

lookupIndustryFromSICCode(sicCode) ==
    LET t     == Trim(sicCode)
        two   == ParseInt(SubSeq(t, 1, Min(2, Len(t))))
        match == SelectSeq(SIC_SECTIONS, LAMBDA s : two[1] >= s.lo /\ two[1] <= s.hi)
    IN  IF Len(sicCode) = 0 \/ Len(two) = 0 \/ Len(match) = 0 THEN << >>
        ELSE match[1].name

SicDelims == {",", ";", "/"} \cup Whitespace

\* A SIC field value is [isArray |-> FALSE, str |-> the string] or
\* [isArray |-> TRUE, items |-> the codes]; NoSic is the absent value
NoSic == [isArray |-> FALSE, str |-> << >>]

\* !sicFieldValue
SicBlank(v) == ~v.isArray /\ Len(v.str) = 0

\* deriveIndustryFromSICField with an array in place of the Set of labels
deriveIndustryNoDedup(v) ==
    LET values == IF v.isArray THEN v.items
                  ELSE Split(ReplaceRuns(v.str, SicDelims, <<" ">>), " ")
        labels == SelectSeq(
                      [k \in DOMAIN values |-> lookupIndustryFromSICCode(values[k])],
                      LAMBDA l : Len(l) > 0)
    IN  IF SicBlank(v) THEN << >> ELSE Join(labels, <<" ","|"," ">>)

deriveIndustryFromSICField(v) ==
    LET values == IF v.isArray THEN v.items
                  ELSE Split(ReplaceRuns(v.str, SicDelims, <<" ">>), " ")
        labels == AddAll(<< >>, SelectSeq(
                      [k \in DOMAIN values |-> lookupIndustryFromSICCode(values[k])],
                      LAMBDA l : Len(l) > 0))
    IN  IF SicBlank(v) THEN << >> ELSE Join(labels, <<" ","|"," ">>)

(***************************************************************************)
(* The inputs of the model.                                                *)
(***************************************************************************)
\* the most records one selection returns
MaxRecs == 2

\* the most candidate domains that are alive on the network
MaxAlive == 2

\* the subsets of S with at most k elements
RECURSIVE KSubsets(_, _)
KSubsets(S, k) ==
    IF k = 0 THEN {{}}
    ELSE LET P == KSubsets(S, k - 1) IN P \cup {p \cup {x} : p \in P, x \in S}

Vias == {"dns", "http", "both"}

\* the network on which the domains of A are alive, by DNS, by HTTP or by
\* both
NetOf(A, via) ==
    [dns  |-> IF via \in {"dns", "both"} THEN A ELSE {},
     http |-> IF via \in {"http", "both"} THEN A ELSE {}]

\* the networks on which at most MaxAlive of the candidates are alive
Nets(cands) ==
    {NetOf(A, via) : A \in KSubsets(Range(cands), MaxAlive), via \in Vias}

AcmeWidgetsLtd == <<"A","c","m","e"," ","W","i","d","g","e","t","s"," ","L","t","d">>

AcmeLtd == <<"A","c","m","e"," ","L","t","d">>

AbCdEfLtd == <<"A","b"," ","C","d"," ","E","f"," ","L","t","d">>

Zed == <<"Z","e","d">>

OnlyLtd == <<"L","t","d">>

UK == <<"U","K">>

France == <<"F","r","a","n","c","e">>

AcmeCom == <<"a","c","m","e",".","c","o","m">>

OldEmail == <<"o","l","d","@","a","c","m","e",".","c","o","m">>

OldPhone == <<"+","4","4","1","2","3","4","5","6","7","8","9","0">>

Retail == <<"R","e","t","a","i","l">>

Wholesale == <<"W","h","o","l","e","s","a","l","e">>

\* rec.get(field) of a Domain, Email, Phone or Industry field: a string
\* ([isArray |-> FALSE, str |-> s], the absent value being '') or an array of
\* strings ([isArray |-> TRUE, items |-> the strings])
Text(s) == [isArray |-> FALSE, str |-> s]

\* {Field} = BLANK()
FieldBlank(v) == ~v.isArray /\ Len(v.str) = 0

\* getField(rec, field): '' for a falsy value, v[0] for an array, else v
getField(v) ==
    IF ~v.isArray THEN v.str
    ELSE IF Len(v.items) = 0 THEN << >>
    ELSE v.items[1]

Sic25110 == [isArray |-> FALSE, str |-> <<"2","5","1","1","0">>]

\* the values of the Company field: a string, or a number (isText FALSE,
\* s its decimal form)
CompanyValues ==
    {[isText |-> TRUE, s |-> AcmeLtd],
     [isText |-> TRUE, s |-> OnlyLtd],
     [isText |-> FALSE, s |-> <<"4","2">>]}

\* the records a selection can return; a field other than company is blank
\* (<< >>) or holds a value, and the country is blank as under the default
\* AIRTABLE_COUNTRY_FIELD = ''
AllRecords ==
    [company : CompanyValues,
     country : {<< >>}, sic : {NoSic, Sic25110},
     domain : {Text(<< >>), Text(AcmeCom)}, email : {Text(<< >>), Text(OldEmail)},
     phone : {Text(<< >>), Text(OldPhone)},
     industry : {Text(<< >>), Text(Retail),
                 [isArray |-> TRUE, items |-> <<Retail, Wholesale>>]}]

\* needEnrichmentFilter: OR(domain blank, email blank, phone blank,
\* industry blank)
needEnrichmentFilter(r) ==
    FieldBlank(r.domain) \/ FieldBlank(r.email) \/ FieldBlank(r.phone) \/ FieldBlank(r.industry)

Records == {r \in AllRecords : needEnrichmentFilter(r)}

Body == <<"<","h","t","m","l",">">>

BrandHome == <<"<","h","1",">","A","C","M","E"," ","W","i","d","g","e","t","s","<","/","h","1",">">>

WeakHome == <<"<","h","1",">","W","e","l","c","o","m","e","<","/","h","1",">">>

\* the pages a site's contact page can be
ContactPages(domain) ==
    {NoPage,
     [NoPage EXCEPT !.html = Body,
                    !.mailto = << <<"i","n","f","o","@">> \o domain >>,
                    !.tel = << <<"+","4","4"," ","2","0"," ","7","9","4","6"," ","0","9","5","8">> >>],
     [NoPage EXCEPT !.html = Body,
                    !.dataEmail = << <<"i","n","f","o","[","a","t","]","a","c","m","e",".","c","o","m">> >>,
                    !.textPhones = << <<"0","2","0"," ","7","9","4","6"," ","0","9","5","8">> >>],
     [NoPage EXCEPT !.html = Body,
                    !.cfemail = << <<"4","2","2","b","2","c","2","4","2","d","0","2","2","3","6","c","2","1","2","d">> >>,
                    !.textPhones = << <<"0","1","2","3","4"," ","5","6","7","8","9","0">>, <<"1","2","3","4","5">> >>]}

\* the pages a site's homepage can be
HomePages ==
    {NoPage,
     [NoPage EXCEPT !.html = BrandHome,
                    !.links = << <<"/","j","o","b","s">>, <<"c","o","n","t","a","c","t">>,
                                 <<"h","t","t","p","s",":","/","/","o","t","h","e","r",".","e","x","a","m","p","l","e","/">> >>],
     [NoPage EXCEPT !.html = WeakHome]}

\* the pages behind the homepage's link /jobs
JobsPages ==
    {NoPage,
     [NoPage EXCEPT !.html = Body,
                    !.textEmails = << <<"j","o","b","s","@","g","m","a","i","l",".","c","o","m">> >>]}

\* the sites of a domain: a homepage, a contact page and a jobs page, every
\* other URL failing; the second fetch of the homepage returns the same
\* page or fails
Sites(domain) ==
    {[pages |-> (BaseUrl(domain) :> home)
                @@ ((BaseUrl(domain) \o <<"c","o","n","t","a","c","t">>) :> contact)
                @@ ((BaseUrl(domain) \o <<"j","o","b","s">>) :> jobs),
      home2 |-> IF again THEN home ELSE NoPage] :
        home \in HomePages, contact \in ContactPages(domain), jobs \in JobsPages,
        again \in BOOLEAN}

(***************************************************************************)
(* The state.                                                              *)
(***************************************************************************)
VARIABLES
    pc,          \* the position of main / of the call under study
    dryRun,      \* DRY_RUN.toLowerCase() === 'true'
    nrecs,       \* recs.length
    idx,         \* the 1-based position of main's loop in recs
    rec,         \* the record being processed
    domain,      \* processRecord's local domain
    email,       \* processRecord's local email
    phone,       \* processRecord's local phone
    industry,    \* processRecord's local industry
    brandOk,     \* rec.__BRAND_OK: "undefined", "true" or "false"
    pick,        \* the pick bestDomainFor returned to processRecord
    probes,      \* what the probes of that call found: "none" were made,
                 \* "allFailed" or "someAlive"
    bm,          \* processRecord's local bm as << hits, tokens >>; << >>
                 \* while the brand match is not measured
    statusNote,  \* processRecord's local statusNote
    patch,       \* processRecord's local patch, a function of field names
    attempts,    \* the positions processRecord was called on, in order
    updated,     \* the positions table.update succeeded on, in order
    errors,      \* the positions whose error main's catch logged, in order
    bdVia,       \* the probe that answers for an alive domain in the
                 \* bestDomainFor call under study: "dns", "http" or "both"
    bdArgs,      \* the arguments of the bestDomainFor call under study
    bd,          \* the state of the bestDomainFor call under study
    phonesIn,    \* the argument of the pickBestPhone call under study
    phoneOut,    \* its result
    emailsIn,    \* the arguments of the pickBestEmail call under study
    emailOut,    \* its result
    fn,          \* the pure-function call under study: its argument and
                 \* its result
    vf,          \* the verify call under study: its lookups, its HTTP
                 \* requests and its result
    fl,          \* the verifications of the bestDomainFor call under study:
                 \* those in flight, those started and completed, the pauses
    cr           \* the discoverContacts call under study: its position, its
                 \* sets, and the fetches it made

mainVars ==
    << pc, dryRun, nrecs, idx, rec, domain, email, phone, industry, brandOk,
       pick, probes, bm, statusNote, patch, attempts, updated, errors >>

bdVars == << bdVia, bdArgs, bd >>

rankVars == << phonesIn, phoneOut, emailsIn, emailOut >>

\* the variables of the calls studied on their own besides bestDomainFor
\* and the two rankers
auxVars == << fn, vf, fl, cr >>

vars == << mainVars, bdVars, rankVars, auxVars >>

NoRec ==
    [company |-> [isText |-> TRUE, s |-> << >>], country |-> << >>, sic |-> NoSic,
     domain |-> Text(<< >>), email |-> Text(<< >>), phone |-> Text(<< >>),
     industry |-> Text(<< >>)]

NoPatch == << >>

BDIdle ==
    [cands |-> << >>, i |-> 0, checked |-> << >>, done |-> TRUE, pick |-> Null,
     early |-> FALSE]

MainIdle ==
    /\ dryRun = FALSE /\ nrecs = 0 /\ idx = 0 /\ rec = NoRec
    /\ domain = << >> /\ email = << >> /\ phone = << >> /\ industry = << >>
    /\ brandOk = "undefined" /\ pick = Null /\ probes = "none" /\ bm = << >>
    /\ statusNote = "" /\ patch = NoPatch
    /\ attempts = << >> /\ updated = << >> /\ errors = << >>

BDIdleInit == bdVia = "dns" /\ bdArgs = [name |-> << >>, country |-> << >>] /\ bd = BDIdle

RankIdle ==
    /\ phonesIn = << >> /\ phoneOut = << >>
    /\ emailsIn = [emails |-> << >>, preferredDomain |-> << >>] /\ emailOut = << >>

NoCall == [arg |-> << >>, out |-> << >>]

\* no verify call
NoVerify ==
    [domain |-> << >>, a |-> "pending", aaaa |-> "pending", mx |-> "pending",
     dnsDone |-> FALSE, dnsOk |-> FALSE, phase |-> "head", k |-> 1,
     log |-> << >>, httpDone |-> FALSE, httpOk |-> FALSE, done |-> FALSE,
     result |-> Null]

\* no verification started
NoFlight ==
    [stage |-> "loop", inflight |-> {}, res |-> << >>, started |-> << >>,
     completed |-> {}, pauses |-> 0]

\* no crawl
NoCrawl ==
    [domain |-> << >>, site |-> [pages |-> << >>, home2 |-> NoPage],
     stage |-> "seeds", k |-> 1,
     st |-> [seen |-> {}, emails |-> << >>, phones |-> << >>, count |-> 0],
     internal |-> << >>, log |-> << >>, brandText |-> << >>,
     result |-> [email |-> << >>, phone |-> << >>]]

AuxIdle ==
    /\ fn = NoCall
    /\ vf = NoVerify
    /\ fl = NoFlight
    /\ cr = NoCrawl

(***************************************************************************)
(* main and processRecord.                                                 *)
(***************************************************************************)
FDomain == "Domain"

FEmail == "Email"

FPhone == "Phone"

FIndustry == "Industry"

FStatus == "Enrichment Status"

FLastEnriched == "Last Enriched At"

\* nowIso()
Now == "now"

\* the status chain of processRecord with the brand flag read the wrong
\* way round
StatusOfBrandSwapped(d, e, p, brand) ==
    IF Len(d) = 0 /\ Len(e) = 0 /\ Len(p) = 0 THEN "No domain or contacts found"
    ELSE IF Len(d) > 0 /\ Len(e) = 0 /\ Len(p) = 0 THEN "Domain only"
    ELSE IF Len(d) > 0 /\ (Len(e) > 0 \/ Len(p) > 0)
         THEN IF brand = "true" THEN "Domain only (unverified brand match)" ELSE "OK"
    ELSE "Partial"

\* the status chain of processRecord; brand is rec.__BRAND_OK
StatusOf(d, e, p, brand) ==
    IF Len(d) = 0 /\ Len(e) = 0 /\ Len(p) = 0 THEN "No domain or contacts found"
    ELSE IF Len(d) > 0 /\ Len(e) = 0 /\ Len(p) = 0 THEN "Domain only"
    ELSE IF Len(d) > 0 /\ (Len(e) > 0 \/ Len(p) > 0)
         THEN IF brand # "undefined" /\ brand = "false"
              THEN "Domain only (unverified brand match)" ELSE "OK"
    ELSE "Partial"

\* the patch that always carries the four value fields, blank or not
PatchOfAllFields(d, e, p, ind, status) ==
    (FDomain :> d) @@ (FEmail :> e) @@ (FPhone :> p) @@ (FIndustry :> ind)
    @@ (FStatus :> status) @@ (FLastEnriched :> Now)

\* the patch of processRecord: a value field is set when it is non-blank
PatchOf(d, e, p, ind, status) ==
    LET fields == (IF Len(d) > 0 THEN {FDomain} ELSE {})
                  \cup (IF Len(e) > 0 THEN {FEmail} ELSE {})
                  \cup (IF Len(p) > 0 THEN {FPhone} ELSE {})
                  \cup (IF Len(ind) > 0 THEN {FIndustry} ELSE {})
                  \cup {FStatus, FLastEnriched}
    IN  [f \in fields |->
            CASE f = FDomain -> d [] f = FEmail -> e [] f = FPhone -> p
              [] f = FIndustry -> ind [] f = FStatus -> status
              [] f = FLastEnriched -> Now]

\* where main goes when processRecord throws, were the call not in a try
CatchUncaught == "fatal"

\* where main goes when processRecord throws: the catch logs the error and
\* the loop body goes on to its sleep
Catch == "sleep"

\* the loop of main after the sleep: the next record, or the end
LoopNext(i, n) == IF i + 1 > n THEN "done" ELSE "loop"

\* processRecord throws at the position idx
Throw ==
    /\ pc' = Catch
    /\ errors' = Append(errors, idx)

\* main: recs = await selectBatchNeedingEnrichment(), which resolves
Select ==
    /\ pc = "select"
    /\ \E n \in 0..MaxRecs :
         /\ nrecs' = n
         /\ idx' = IF n = 0 THEN 0 ELSE 1
         /\ pc' = IF n = 0 THEN "done" ELSE "loop"
    /\ UNCHANGED << dryRun, rec, domain, email, phone, industry, brandOk, pick,
                    probes, bm, statusNote, patch, attempts, updated,
                    errors >>
    /\ UNCHANGED << bdVars, rankVars >>
    /\ UNCHANGED auxVars

\* main: selectBatchNeedingEnrichment() rejects, main().catch exits
SelectFails ==
    /\ pc = "select"
    /\ pc' = "fatal"
    /\ UNCHANGED << dryRun, nrecs, idx, rec, domain, email, phone, industry,
                    brandOk, pick, probes, bm, statusNote, patch,
                    attempts, updated, errors >>
    /\ UNCHANGED << bdVars, rankVars >>
    /\ UNCHANGED auxVars

\* processRecord, entry: the fields of the record are read
ProcessStart ==
    /\ pc = "loop"
    /\ \E r \in Records :
         /\ rec' = r
         /\ domain' = getField(r.domain)
         /\ email' = getField(r.email)
         /\ phone' = getField(r.phone)
         /\ industry' = getField(r.industry)
    /\ statusNote' = ""
    /\ attempts' = Append(attempts, idx)
    /\ pc' = "domain"
    /\ UNCHANGED << dryRun, nrecs, idx, brandOk, pick, probes, bm, patch,
                    updated, errors >>
    /\ UNCHANGED << bdVars, rankVars >>
    /\ UNCHANGED auxVars

\* processRecord, 1) Domain
ResolveDomain ==
    /\ pc = "domain"
    /\ IF Len(domain) > 0
       THEN /\ pc' = "contacts"
            /\ UNCHANGED << domain, pick, probes, errors >>
       ELSE IF ~rec.company.isText
       THEN /\ Throw
            /\ UNCHANGED << domain, pick, probes >>
       ELSE \E enter \in {BDEnter(rec.company.s, rec.country)} :
            \E n \in Nets(enter.cands) :
            \E r \in {BDRun(enter, n)} :
              /\ pick' = r.pick
              /\ domain' = IF r.pick # Null THEN r.pick.domain ELSE domain
              /\ probes' = IF Len(r.checked) = 0 THEN "none"
                           ELSE IF \E k \in DOMAIN r.checked :
                                     r.checked[k].dnsOk \/ r.checked[k].httpOk
                                THEN "someAlive" ELSE "allFailed"
              /\ pc' = "contacts"
              /\ UNCHANGED errors
    /\ UNCHANGED << dryRun, nrecs, idx, rec, email, phone, industry, brandOk, bm,
                    statusNote, patch, attempts, updated >>
    /\ UNCHANGED << bdVars, rankVars >>
    /\ UNCHANGED auxVars

\* processRecord, 2) Contacts
ResolveContacts ==
    /\ pc = "contacts"
    /\ IF ~(Len(domain) > 0 /\ (Len(email) = 0 \/ Len(phone) = 0))
       THEN /\ pc' = "finish"
            /\ UNCHANGED << email, phone, brandOk, bm, errors >>
       ELSE IF ~rec.company.isText
       THEN /\ Throw
            /\ UNCHANGED << email, phone, brandOk, bm >>
       ELSE \E site \in Sites(domain) :
            \E c \in {discoverContacts(domain, site)} :
            \E m \in {brandMatchScore(rec.company.s, c.brandText)} :
                  /\ bm' = m
                  /\ email' = IF Len(email) = 0 /\ Len(c.email) > 0 THEN c.email ELSE email
                  /\ phone' = IF Len(phone) = 0 /\ Len(c.phone) > 0 THEN c.phone ELSE phone
                  /\ brandOk' = IF BrandOk(m) THEN "true" ELSE "false"
                  /\ pc' = "finish"
                  /\ UNCHANGED errors
    /\ UNCHANGED << dryRun, nrecs, idx, rec, domain, industry, pick, probes,
                    statusNote, patch, attempts, updated >>
    /\ UNCHANGED << bdVars, rankVars >>
    /\ UNCHANGED auxVars

\* processRecord, 3) Industry from SIC, Status, and the patch
Finish ==
    /\ pc = "finish"
    /\ LET derived == deriveIndustryFromSICField(rec.sic)
           ind     == IF Len(industry) = 0 /\ ~SicBlank(rec.sic) /\ Len(derived) > 0
                      THEN derived ELSE industry
           status  == StatusOf(domain, email, phone, brandOk)
       IN  /\ industry' = ind
           /\ statusNote' = status
           /\ patch' = PatchOf(domain, email, phone, ind, status)
    /\ pc' = "update"
    /\ UNCHANGED << dryRun, nrecs, idx, rec, domain, email, phone, brandOk, pick,
                    probes, bm, attempts, updated, errors >>
    /\ UNCHANGED << bdVars, rankVars >>
    /\ UNCHANGED auxVars

\* processRecord, write back: table.update resolves, or nothing is written
\* under DRY_RUN
Update ==
    /\ pc = "update"
    /\ updated' = IF dryRun THEN updated ELSE Append(updated, idx)
    /\ pc' = "sleep"
    /\ UNCHANGED << dryRun, nrecs, idx, rec, domain, email, phone, industry,
                    brandOk, pick, probes, bm, statusNote, patch,
                    attempts, errors >>
    /\ UNCHANGED << bdVars, rankVars >>
    /\ UNCHANGED auxVars

\* processRecord, write back: table.update rejects
UpdateFails ==
    /\ pc = "update"
    /\ ~dryRun
    /\ Throw
    /\ UNCHANGED << dryRun, nrecs, idx, rec, domain, email, phone, industry,
                    brandOk, pick, probes, bm, statusNote, patch,
                    attempts, updated >>
    /\ UNCHANGED << bdVars, rankVars >>
    /\ UNCHANGED auxVars

\* main: await sleep(300), then the next iteration; processRecord has
\* returned or thrown, and its locals are gone
Sleep ==
    /\ pc = "sleep"
    /\ pc' = LoopNext(idx, nrecs)
    /\ idx' = idx + 1
    /\ rec' = NoRec
    /\ domain' = << >> /\ email' = << >> /\ phone' = << >> /\ industry' = << >>
    /\ brandOk' = "undefined" /\ pick' = Null /\ probes' = "none" /\ bm' = << >>
    /\ statusNote' = "" /\ patch' = NoPatch
    /\ UNCHANGED << dryRun, nrecs, attempts, updated, errors >>
    /\ UNCHANGED << bdVars, rankVars >>
    /\ UNCHANGED auxVars

(***************************************************************************)
(* One call of bestDomainFor, batch by batch.  The network answers when a  *)
(* batch is verified; at most MaxAlive candidates are alive.               *)
(***************************************************************************)
BDNames == {AcmeWidgetsLtd, AbCdEfLtd, Zed, OnlyLtd}

BDCountries == {<< >>, UK, France}

\* the calls under study: every short name with every country hint, the
\* long names with a blank and a UK hint
BDCalls ==
    {a \in [name : BDNames, country : BDCountries] :
        a.name \in {Zed, OnlyLtd} \/ a.country # France}

AliveCount(checked) == Cardinality({k \in DOMAIN checked : checked[k].ok})

\* the loop body of bestDomainFor: one batch is verified
VerifyBatch ==
    /\ pc = "bd"
    /\ ~bd.done
    /\ bd.i < Top(bd)
    /\ \E A \in SUBSET Range(Batch(bd)) :
         /\ AliveCount(bd.checked) + Cardinality(A) <= MaxAlive
         /\ bd' = BDStep(bd, NetOf(A, bdVia))
    /\ UNCHANGED << pc, bdVia, bdArgs >>
    /\ UNCHANGED << dryRun, nrecs, idx, rec, domain, email, phone, industry,
                    brandOk, pick, probes, bm, statusNote, patch, attempts,
                    updated, errors >>
    /\ UNCHANGED rankVars
    /\ UNCHANGED auxVars

\* the return of bestDomainFor after its loop
ReturnBest ==
    /\ pc = "bd"
    /\ ~bd.done
    /\ bd.i >= Top(bd)
    /\ bd' = BDFinish(bd)
    /\ UNCHANGED << pc, bdVia, bdArgs >>
    /\ UNCHANGED << dryRun, nrecs, idx, rec, domain, email, phone, industry,
                    brandOk, pick, probes, bm, statusNote, patch, attempts,
                    updated, errors >>
    /\ UNCHANGED rankVars
    /\ UNCHANGED auxVars

InitBD ==
    /\ pc = "bd"
    /\ MainIdle
    /\ RankIdle
    /\ bdVia \in Vias
    /\ bdArgs \in BDCalls
    /\ bd = BDEnter(bdArgs.name, bdArgs.country)
    /\ AuxIdle

NextBD == VerifyBatch \/ ReturnBest

SpecBD == InitBD /\ [][NextBD]_vars

(***************************************************************************)
(* One call of pickBestPhone on a list of raw phone strings.               *)
(***************************************************************************)
\* the longest list of raw phone strings
MaxPhones == 2

RawPhones ==
    {<< >>,
     <<"t","e","l">>,
     <<"1","2","3","4","5">>,
     <<"+","4","4"," ","2","0"," ","7","9","4","6"," ","0","9","5","8">>,
     <<"0","0","4","4","1","2","3","4","5","6","7","8","9","0">>,
     <<"4","4","2","0","7","9","4","6","0","9","5","8">>,
     <<"0","2","0"," ","7","9","4","6"," ","0","9","5","8">>,
     <<"+","1"," ","(","5","5","5",")"," ","0","1","0","-","9","9","9","9">>,
     <<"0","1","2","3","4"," ","5","6","7","8","9","0"," ","1","2","3","4">>,
     <<"1","2","3","4","5","6","7","8","9","0","1","2","3","4","5","6">>,
     <<"+","4","4","+","2","0","7","9","4","6","0","9","5","8">>}

\* the sequences over S of length at most n
SeqsUpTo(S, n) == UNION {[1..k -> S] : k \in 0..n}

PickPhone ==
    /\ pc = "phone"
    /\ phoneOut' = pickBestPhone(phonesIn)
    /\ pc' = "phoneDone"
    /\ UNCHANGED << dryRun, nrecs, idx, rec, domain, email, phone, industry,
                    brandOk, pick, probes, bm, statusNote, patch, attempts,
                    updated, errors >>
    /\ UNCHANGED << bdVars, phonesIn, emailsIn, emailOut >>
    /\ UNCHANGED auxVars

InitPhone ==
    /\ pc = "phone"
    /\ MainIdle
    /\ BDIdleInit
    /\ phonesIn \in SeqsUpTo(RawPhones, MaxPhones)
    /\ phoneOut = << >>
    /\ emailsIn = [emails |-> << >>, preferredDomain |-> << >>]
    /\ emailOut = << >>
    /\ AuxIdle

NextPhone == PickPhone

SpecPhone == InitPhone /\ [][NextPhone]_vars

(***************************************************************************)
(* One call of pickBestEmail on a list of addresses and a preferred        *)
(* domain.                                                                 *)
(***************************************************************************)
\* the longest list of addresses
MaxEmails == 3

RawEmails ==
    {<< >>,
     <<"i","n","f","o","@","a","c","m","e",".","c","o","m">>,
     <<"s","a","l","e","s","+","p","r","o","m","o","@","a","c","m","e",".","c","o","m">>,
     <<"r","a","n","d","o","m","@","g","m","a","i","l",".","c","o","m">>,
     <<"i","n","f","o","@","m","e",".","c","o","m">>,
     <<" ","H","e","l","l","o","@","M","a","i","l",".","A","c","m","e",".","c","o","m"," ">>,
     <<"c","o","n","t","a","c","t","@","o","t","h","e","r",".","o","r","g">>}

PreferredDomains == {<< >>, AcmeCom}

PickEmail ==
    /\ pc = "email"
    /\ emailOut' = pickBestEmail(emailsIn.emails, emailsIn.preferredDomain)
    /\ pc' = "emailDone"
    /\ UNCHANGED << dryRun, nrecs, idx, rec, domain, email, phone, industry,
                    brandOk, pick, probes, bm, statusNote, patch, attempts,
                    updated, errors >>
    /\ UNCHANGED << bdVars, phonesIn, phoneOut, emailsIn >>
    /\ UNCHANGED auxVars

InitEmail ==
    /\ pc = "email"
    /\ MainIdle
    /\ BDIdleInit
    /\ phonesIn = << >>
    /\ phoneOut = << >>
    /\ emailsIn \in [emails : SeqsUpTo(RawEmails, MaxEmails),
                      preferredDomain : PreferredDomains]
    /\ emailOut = << >>
    /\ AuxIdle

NextEmail == PickEmail

SpecEmail == InitEmail /\ [][NextEmail]_vars

Init ==
    /\ pc = "select"
    /\ dryRun \in BOOLEAN
    /\ nrecs = 0 /\ idx = 0 /\ rec = NoRec
    /\ domain = << >> /\ email = << >> /\ phone = << >> /\ industry = << >>
    /\ brandOk = "undefined" /\ pick = Null /\ probes = "none" /\ bm = << >>
    /\ statusNote = "" /\ patch = NoPatch
    /\ attempts = << >> /\ updated = << >> /\ errors = << >>
    /\ BDIdleInit
    /\ RankIdle
    /\ AuxIdle

Next ==
    \/ Select
    \/ SelectFails
    \/ ProcessStart
    \/ ResolveDomain
    \/ ResolveContacts
    \/ Finish
    \/ Update
    \/ UpdateFails
    \/ Sleep

Spec == Init /\ [][Next]_vars

(***************************************************************************)
(* Properties of main and processRecord (specification Spec).              *)
(***************************************************************************)
\* processRecord has built its patch for the record at hand
PatchBuilt == patch # NoPatch

\* C1: for a record whose domain field is blank, the domain processRecord
\* resolves through bestDomainFor and puts in the patch is the domain of a
\* verification result with ok = true (alive by DNS or by HTTP); a result
\* with ok = false is never written as the record's domain.
C1_ResolvedDomainVerifiedOk ==
    /\ (pc \in {"contacts", "finish", "update", "sleep"}
          /\ FieldBlank(rec.domain) /\ Len(domain) > 0)
       => /\ pick # Null
          /\ pick.ok
          /\ pick.dnsOk \/ pick.httpOk
          /\ pick.domain = domain
    /\ (PatchBuilt /\ FieldBlank(rec.domain) /\ FDomain \in DOMAIN patch)
       => /\ pick # Null
          /\ pick.ok
          /\ patch[FDomain] = pick.domain

\* a blank-domain record was written with a domain that answered HTTP only
C1_Witness ==
    /\ pc = "sleep"
    /\ FieldBlank(rec.domain)
    /\ FDomain \in DOMAIN patch
    /\ idx \in Range(updated)
    /\ pick # Null /\ pick.httpOk /\ ~pick.dnsOk

HasDomain == Len(domain) > 0

HasContact == Len(email) > 0 \/ Len(phone) > 0

\* the brand match was measured and its score hits / tokens is below 0.4
BrandWeak == bm # << >> /\ 10 * bm[1] < 4 * bm[2]

StatusLabels ==
    {"No domain or contacts found", "Domain only", "OK",
     "Domain only (unverified brand match)", "Partial"}

\* C2: the status label written is a function of the final domain, email,
\* phone and brand match: 'No domain or contacts found' when all three are
\* absent, 'Domain only' with a domain and no contact, 'OK' with a domain
\* and a contact and a brand match that is confident or not measured,
\* 'Domain only (unverified brand match)' with a domain and a contact and a
\* weak brand match, 'Partial' otherwise; the patch carries that one label.
C2_StatusLabelOfFinalValues ==
    PatchBuilt =>
        /\ FStatus \in DOMAIN patch
        /\ patch[FStatus] = statusNote
        /\ statusNote \in StatusLabels
        /\ statusNote =
             (IF ~HasDomain /\ ~HasContact THEN "No domain or contacts found"
              ELSE IF HasDomain /\ ~HasContact THEN "Domain only"
              ELSE IF HasDomain /\ HasContact /\ ~BrandWeak THEN "OK"
              ELSE IF HasDomain /\ HasContact /\ BrandWeak
                   THEN "Domain only (unverified brand match)"
              ELSE "Partial")

\* a record with a domain and a contact whose brand match was weak
C2_Witness ==
    /\ PatchBuilt
    /\ HasDomain /\ HasContact /\ BrandWeak
    /\ patch[FStatus] = "Domain only (unverified brand match)"

\* C3: main attempts processRecord on every selected record exactly once,
\* in selection order; an error is caught at the loop and does not end the
\* run, the failed record is not attempted again and has no patch applied,
\* and every later record is still processed.
C3_EveryRecordAttemptedOnce ==
    /\ attempts = [k \in 1..Len(attempts) |-> k]
    /\ Len(attempts) <= nrecs
    /\ pc = "done" => Len(attempts) = nrecs
    /\ pc = "fatal" => attempts = << >>
    /\ Range(errors) \subseteq Range(attempts)
    /\ Range(errors) \cap Range(updated) = {}
    /\ \A j, k \in DOMAIN errors : j < k => errors[j] < errors[k]
    /\ \A j, k \in DOMAIN updated : j < k => updated[j] < updated[k]

\* the first of two records failed and the second was still written
C3_Witness ==
    /\ pc = "done"
    /\ nrecs >= 2
    /\ 1 \in Range(errors)
    /\ nrecs \in Range(updated)

\* the record's domain, email, phone and industry fields are all blank
AllBlank(r) ==
    FieldBlank(r.domain) /\ FieldBlank(r.email) /\ FieldBlank(r.phone) /\ FieldBlank(r.industry)

CManufacturing ==
    <<"C"," ","-"," ","M","a","n","u","f","a","c","t","u","r","i","n","g">>

\* C4 as stated: for a record whose domain, email, phone and industry are
\* blank, with or without an industry code, when every probe fails the
\* status is 'No domain or contacts found' and the patch holds the status
\* and the timestamp and no other field.
C4_PatchOnlyStatusAndTimestamp ==
    (PatchBuilt /\ AllBlank(rec) /\ probes # "someAlive")
    => /\ statusNote = "No domain or contacts found"
       /\ DOMAIN patch = {FStatus, FLastEnriched}

\* C4 amended: for such a record, when every probe fails the status is
\* 'No domain or contacts found' and the patch holds the status, the
\* timestamp and, when the record's industry code maps to a section, the
\* industry derived from it ('C - Manufacturing' for 25110); it holds no
\* domain, email or phone.
C4_PatchStatusTimestampAndDerivedIndustry ==
    (PatchBuilt /\ AllBlank(rec) /\ probes # "someAlive")
    => /\ statusNote = "No domain or contacts found"
       /\ patch[FStatus] = statusNote
       /\ {FStatus, FLastEnriched} \subseteq DOMAIN patch
       /\ DOMAIN patch \subseteq {FStatus, FLastEnriched, FIndustry}
       /\ SicBlank(rec.sic) => FIndustry \notin DOMAIN patch
       /\ rec.sic = Sic25110 =>
            FIndustry \in DOMAIN patch /\ patch[FIndustry] = CManufacturing

\* an all-blank record with the code 25110 whose probes were made and all
\* failed has its patch built
C4_Witness ==
    /\ PatchBuilt
    /\ AllBlank(rec)
    /\ rec.sic = Sic25110
    /\ probes = "allFailed"
    /\ FIndustry \in DOMAIN patch

\* s holds a substring that EMAIL_RE matches
ContainsEmailMatch(s) ==
    \E i \in DOMAIN s : \E j \in i..Len(s) : MatchesEmailRe(SubSeq(s, i, j))

\* C7: every email processRecord writes into a blank email field matches
\* the email pattern (local part, '@', domain, '.', letters); a scraped
\* string that does not match it is never written.
C7_WrittenEmailMatchesPattern ==
    (PatchBuilt /\ FieldBlank(rec.email) /\ FEmail \in DOMAIN patch)
    => ContainsEmailMatch(patch[FEmail])

(***************************************************************************)
(* Properties of bestDomainFor (specification SpecBD).                     *)
(***************************************************************************)
\* the result r is alive and its domain ends in '.co.uk' or '.com'
StrongHit(r) ==
    r.ok /\ (EndsWith(r.domain, DotCoUk) \/ EndsWith(r.domain, DotCom))

\* p is a result of rs that is alive and whose score no alive result of
\* rs exceeds
BestAliveOf(p, rs) ==
    /\ p \in Range(rs)
    /\ p.ok
    /\ \A k \in DOMAIN rs : rs[k].ok => score(p.domain) >= score(rs[k].domain)

\* the results the step from bd to bd' appended
NewResults == SubSeq(bd'.checked, Len(bd.checked) + 1, Len(bd'.checked))

\* C5: after each completed batch, if a candidate of that batch is alive
\* and ends in '.co.uk' or '.com', the call returns, no further batch is
\* verified, and the pick is the highest-scored alive candidate among all
\* the batches verified so far; if the batch has no such hit, the call
\* goes on to the next batch.
C5_EarlyStopOnStrongHit ==
    [][ /\ bd'.checked # bd.checked =>
            IF \E k \in DOMAIN NewResults : StrongHit(NewResults[k])
            THEN /\ bd'.done
                 /\ bd'.pick # Null
                 /\ BestAliveOf(bd'.pick, bd'.checked)
            ELSE /\ ~bd'.done
                 /\ bd'.i = bd.i + BatchLen
                 /\ bd'.i = Len(bd.checked) + BatchLen
                 /\ bd'.pick = Null
        /\ bd.done => bd'.checked = bd.checked /\ bd'.pick = bd.pick
      ]_vars

\* the call returned on a strong hit of its second batch, where a second
\* candidate with a lower score was alive too, with batches left unverified
C5_Witness ==
    /\ bd.done
    /\ bd.early
    /\ Len(bd.checked) = 2 * BatchLen
    /\ Len(bd.checked) < Top(bd)
    /\ bd.pick # Null
    /\ \E k \in DOMAIN bd.checked :
          bd.checked[k].ok /\ score(bd.checked[k].domain) < score(bd.pick.domain)

\* C6: when no batch has a strong hit, every candidate of the capped set
\* is verified and the pick is the highest-scored alive candidate among
\* them; the pick is null exactly when no verified candidate is alive.
C6_ExhaustionReturnsBestAlive ==
    (bd.done /\ ~\E k \in DOMAIN bd.checked : StrongHit(bd.checked[k]))
    => /\ Len(bd.checked) = Min(TopCap, Len(bd.cands))
       /\ \A k \in DOMAIN bd.checked : bd.checked[k].domain = bd.cands[k]
       /\ (bd.pick = Null) <=> (\A k \in DOMAIN bd.checked : ~bd.checked[k].ok)
       /\ bd.pick # Null => BestAliveOf(bd.pick, bd.checked)

\* a list longer than the cap was verified up to the cap without a strong
\* hit, and the pick is one of two alive candidates
C6_Witness ==
    /\ bd.done
    /\ ~bd.early
    /\ Len(bd.cands) > TopCap
    /\ Len(bd.checked) = TopCap
    /\ AliveCount(bd.checked) >= 2
    /\ bd.pick # Null
    /\ \E k \in DOMAIN bd.checked :
          bd.checked[k].ok /\ score(bd.checked[k].domain) < score(bd.pick.domain)

\* C10: for a non-empty normalized name and any country hint the candidate
\* list is non-empty and, after the sort, in non-increasing order of score;
\* the candidates are verified in that order.
C10_CandidatesSortedByScore ==
    Len(cleanName(bdArgs.name)) > 0
    => /\ Len(bd.cands) > 0
       /\ \A k \in 1..(Len(bd.cands) - 1) :
             score(bd.cands[k]) >= score(bd.cands[k + 1])
       /\ \A k \in DOMAIN bd.checked : bd.checked[k].domain = bd.cands[k]
       /\ \A k \in 1..(Len(bd.checked) - 1) :
             score(bd.checked[k].domain) >= score(bd.checked[k + 1].domain)

\* a list with a UK hint whose scores differ was verified up to the cap
C10_Witness ==
    /\ bdArgs.country = UK
    /\ bd.done
    /\ Len(bd.checked) = TopCap
    /\ score(bd.cands[1]) > score(bd.cands[Len(bd.cands)])
    /\ EndsWith(bd.cands[1], DotCoUk)

(***************************************************************************)
(* Properties of pickBestPhone (specification SpecPhone).                  *)
(***************************************************************************)
\* an optional leading '+' followed by 10 to 15 digits
PlausiblePhone(n) ==
    LET ds == IF Len(n) > 0 /\ n[1] = "+" THEN Tail(n) ELSE n
    IN  /\ Len(ds) \in 10..15
        /\ \A k \in DOMAIN ds : ds[k] \in Digits

\* C8: pickBestPhone returns the empty string or a normalized input that
\* is an optional '+' followed by 10 to 15 digits; a number of implausible
\* length is never returned, and the result is empty exactly when no input
\* normalizes to a plausible number.
C8_PhoneResultPlausible ==
    pc = "phoneDone"
    => /\ phoneOut = << >> \/ PlausiblePhone(phoneOut)
       /\ phoneOut # << >> =>
            \E k \in DOMAIN phonesIn : phoneOut = normalizePhone(phonesIn[k])
       /\ (phoneOut = << >>) <=>
            (\A k \in DOMAIN phonesIn : ~PlausiblePhone(normalizePhone(phonesIn[k])))

\* a list that starts with an implausible number and has a plausible one
\* returned the plausible one
C8_Witness ==
    /\ pc = "phoneDone"
    /\ Len(phonesIn) >= 2
    /\ ~PlausiblePhone(normalizePhone(phonesIn[1]))
    /\ normalizePhone(phonesIn[1]) # << >>
    /\ phoneOut # << >>

(***************************************************************************)
(* Properties of pickBestEmail (specification SpecEmail).                  *)
(***************************************************************************)
\* the address e is on the domain d: its host is d, a subdomain of d, or a
\* domain d is a subdomain of
OnDomain(e, d) ==
    LET host == ToLowerCase(AfterAt(Trim(e)))
    IN  \/ host = d
        \/ EndsWith(host, <<".">> \o d)
        \/ Len(host) > 0 /\ EndsWith(d, <<".">> \o host)

\* C9: with a non-empty preferred domain, whenever an input address is on
\* the preferred domain the returned address is on it; an address on
\* another domain is returned only when no input is on the preferred
\* domain.
C9_PreferredDomainWins ==
    (pc = "emailDone" /\ Len(emailsIn.preferredDomain) > 0
       /\ \E k \in DOMAIN emailsIn.emails :
             OnDomain(emailsIn.emails[k], emailsIn.preferredDomain))
    => OnDomain(emailOut, emailsIn.preferredDomain)

(***************************************************************************)
(* One call of deriveIndustryFromSICField (specification SpecSic).  The    *)
(* field value is a list of codes, or the codes joined by a delimiter.     *)
(***************************************************************************)
\* the variables of main other than pc
mainData ==
    << dryRun, nrecs, idx, rec, domain, email, phone, industry, brandOk, pick,
       probes, bm, statusNote, patch, attempts, updated, errors >>

\* the most codes in one field value
MaxCodes == 2

SicCodes ==
    {<< >>,
     <<"2","5","1","1","0">>,
     <<"1","0","1","1","0">>,
     <<"6","2","0","2","0">>,
     <<"0","1","1","1","0">>,
     <<"5">>,
     <<"0","0">>,
     <<"0","4","0","0","0">>,
     <<"3","4">>,
     <<"a","b","c","d","e">>,
     <<"x","2","5","1","1">>,
     <<"-","5","1","1","0">>,
     <<"+","5","1","1","0">>,
     <<"1","a","2","3","4">>,
     <<"9","9","9","9","9">>}

\* how the codes make up the field value: a list, or a string with one of
\* the delimiters between the codes
SicShapes == {"array", ",", ", ", ";", "/", " "}

SicSeparator(shape) ==
    CASE shape = "," -> <<",">>
      [] shape = ", " -> <<","," ">>
      [] shape = ";" -> <<";">>
      [] shape = "/" -> <<"/">>
      [] shape = " " -> <<" ">>
      [] OTHER -> << >>

\* the field value of the codes in the shape
SicFieldOf(codes, shape) ==
    IF shape = "array" THEN [isArray |-> TRUE, items |-> codes]
    ELSE [isArray |-> FALSE, str |-> Join(codes, SicSeparator(shape))]

DeriveIndustry ==
    /\ pc = "sic"
    /\ fn' = [fn EXCEPT !.out = deriveIndustryFromSICField(
                                    SicFieldOf(fn.arg.codes, fn.arg.shape))]
    /\ pc' = "sicDone"
    /\ UNCHANGED << mainData, bdVars, rankVars, vf, fl, cr >>

InitSic ==
    /\ pc = "sic"
    /\ MainIdle
    /\ BDIdleInit
    /\ RankIdle
    /\ fn \in [arg : [codes : SeqsUpTo(SicCodes, MaxCodes), shape : SicShapes],
               out : {<< >>}]
    /\ vf = NoVerify
    /\ fl = NoFlight
    /\ cr = NoCrawl

NextSic == DeriveIndustry

SpecSic == InitSic /\ [][NextSic]_vars

\* the integer the first two characters of a code parse to, as a sequence
\* of length 0 (none) or 1: two digits; one digit followed by a character
\* that is no digit, or by nothing; a sign followed by one digit
SicPrefix(code) ==
    IF Len(code) >= 2 /\ code[1] \in Digits /\ code[2] \in Digits
    THEN << 10 * HexValue[code[1]] + HexValue[code[2]] >>
    ELSE IF Len(code) >= 1 /\ code[1] \in Digits
    THEN << HexValue[code[1]] >>
    ELSE IF Len(code) >= 2 /\ code[1] = "+" /\ code[2] \in Digits
    THEN << HexValue[code[2]] >>
    ELSE IF Len(code) >= 2 /\ code[1] = "-" /\ code[2] \in Digits
    THEN << 0 - HexValue[code[2]] >>
    ELSE << >>

\* the labels of the sections whose range holds the prefix of the code
SicLabelsOf(code) ==
    {SIC_SECTIONS[k].name : k \in
        {j \in DOMAIN SIC_SECTIONS :
            /\ Len(SicPrefix(code)) = 1
            /\ SicPrefix(code)[1] >= SIC_SECTIONS[j].lo
            /\ SicPrefix(code)[1] <= SIC_SECTIONS[j].hi}}

SicSeparatorText == <<" ","|"," ">>

\* the pieces of s between the occurrences of the separator ' | '
RECURSIVE SicPieces(_)
SicPieces(s) ==
    IF \E k \in 1..(Len(s) - 2) : SubSeq(s, k, k + 2) = SicSeparatorText
    THEN LET k == CHOOSE j \in 1..(Len(s) - 2) :
                     /\ SubSeq(s, j, j + 2) = SicSeparatorText
                     /\ \A i \in 1..(j - 1) : SubSeq(s, i, i + 2) # SicSeparatorText
         IN  << SubSeq(s, 1, k - 1) >> \o SicPieces(SubSeq(s, k + 3, Len(s)))
    ELSE IF Len(s) = 0 THEN << >> ELSE << s >>

MaxPieces == 3

NamePieces ==
    {<<"A","c","m","e">>,
     <<"W","i","d","g","e","t","s">>,
     <<"L","t","d">>,
     <<"L","I","M","I","T","E","D">>,
     <<"c","o">>,
     <<" ">>,
     <<"\t">>,
     <<".">>,
     <<"&">>,
     <<"-">>,
     <<";">>,
     <<"_">>,
     <<"(","U","K",")">>}

\* the pieces one after another
RECURSIVE Concat(_)
Concat(ps) == IF Len(ps) = 0 THEN << >> ELSE ps[1] \o Concat(Tail(ps))

RawNames == {Concat(ps) : ps \in SeqsUpTo(NamePieces, MaxPieces)}

CleanName ==
    /\ pc = "clean"
    /\ fn' = [fn EXCEPT !.out = cleanName(fn.arg)]
    /\ pc' = "cleanDone"
    /\ UNCHANGED << mainData, bdVars, rankVars, vf, fl, cr >>

InitClean ==
    /\ pc = "clean"
    /\ MainIdle
    /\ BDIdleInit
    /\ RankIdle
    /\ fn \in [arg : RawNames, out : {<< >>}]
    /\ vf = NoVerify
    /\ fl = NoFlight
    /\ cr = NoCrawl

NextClean == CleanName

SpecClean == InitClean /\ [][NextClean]_vars

\* the ASCII punctuation characters other than the hyphen (the backquote
\* is left out)
PunctuationButHyphen ==
    {"!","\"","#","$","%","&","'","(",")","*","+",",",".","/",":",";","<",
     "=",">","?","@","[","\\","]","^","_","{","|","}","~"}

\* C12: the output of cleanName has no stop-list word as a token and no
\* punctuation character other than hyphens and spaces.
C12_NoStopWordNoPunctuation ==
    pc = "cleanDone" =>
        /\ \A tok \in Range(Split(fn.out, " ")) : tok \notin CleanDrop
        /\ \A k \in DOMAIN fn.out : fn.out[k] \notin PunctuationButHyphen

\* the half of C12 about stop-list words alone
CleanOutputHasNoStopWord ==
    pc = "cleanDone" =>
        \A tok \in Range(Split(fn.out, " ")) : tok \notin CleanDrop

(***************************************************************************)
(* One call of verify (specification SpecVerify): dnsAlive and httpAlive   *)
(* run concurrently.  The three lookups settle in any order; httpAlive      *)
(* sends its requests one after another.                                   *)
(***************************************************************************)
\* how a lookup settles: fulfilled with records, fulfilled with an empty
\* list, or rejected (NXDOMAIN, timeout, any other error)
DnsOutcomes == {"answer", "empty", "error"}

\* r.status === 'fulfilled' && r.value && r.value.length
LookupOk(o) == o = "answer"

\* the lookups awaited with Promise.all: one rejection rejects the whole
\* and the catch returns false
DnsAliveAllFulfilled(a, aaaa, mx) ==
    /\ "error" \notin {a, aaaa, mx}
    /\ LookupOk(a) \/ LookupOk(aaaa) \/ LookupOk(mx)

\* dnsAlive on the settled lookups: [a, aaaa, mx].some(...)
DnsAliveOf(a, aaaa, mx) == LookupOk(a) \/ LookupOk(aaaa) \/ LookupOk(mx)

Www == <<"w","w","w",".">>

\* httpAlive: tries
Tries(d) ==
    << Https \o d, Https \o Www \o d,
       Http \o d, Http \o Www \o d >>

\* what a request settles with: an error (timeout, TLS failure, refused
\* connection), or a response with a status and a body; with
\* validateStatus: () => true no status rejects
HttpError == [kind |-> "error", status |-> 0, isString |-> FALSE, bodyLen |-> 0]

Response(status, isString, bodyLen) ==
    [kind |-> "response", status |-> status, isString |-> isString,
     bodyLen |-> bodyLen]

HttpPending == [kind |-> "pending", status |-> 0, isString |-> FALSE, bodyLen |-> 0]

HeadOutcomes ==
    {HttpError, Response(200, TRUE, 0), Response(404, TRUE, 0),
     Response(999, TRUE, 0)}

GetOutcomes ==
    {HttpError, Response(200, TRUE, 0), Response(404, TRUE, 100),
     Response(500, TRUE, 101), Response(999, FALSE, 5000)}

\* res.status > 0 && res.status < 600
HeadAlive(res) == res.kind = "response" /\ res.status > 0 /\ res.status < 600

\* typeof res.data === 'string' && res.data.length > 100, or
\* res.status >= 200 && res.status < 400
GetAlive(res) ==
    /\ res.kind = "response"
    /\ \/ res.isString /\ res.bodyLen > 100
       \/ res.status >= 200 /\ res.status < 400

\* the verify call with the last request of its log settled with res
Settled(v, res) == [v EXCEPT !.log[Len(v.log)].res = res]

\* httpAlive without the GET loop: false after the four HEAD requests
HttpStepNoFallback(v, res) ==
    IF HeadAlive(res)
    THEN [Settled(v, res) EXCEPT !.httpDone = TRUE, !.httpOk = TRUE]
    ELSE IF v.k < 4 THEN [Settled(v, res) EXCEPT !.k = v.k + 1]
    ELSE [Settled(v, res) EXCEPT !.httpDone = TRUE, !.httpOk = FALSE]

\* httpAlive after the request in flight settled with res: return true,
\* go on to the next URL, go over to the GET loop, or return false
HttpStep(v, res) ==
    IF (v.phase = "head" /\ HeadAlive(res)) \/ (v.phase = "get" /\ GetAlive(res))
    THEN [Settled(v, res) EXCEPT !.httpDone = TRUE, !.httpOk = TRUE]
    ELSE IF v.k < 4 THEN [Settled(v, res) EXCEPT !.k = v.k + 1]
    ELSE IF v.phase = "head" THEN [Settled(v, res) EXCEPT !.phase = "get", !.k = 1]
    ELSE [Settled(v, res) EXCEPT !.httpDone = TRUE, !.httpOk = FALSE]

\* a request of httpAlive is in flight
InFlight(v) == Len(v.log) > 0 /\ v.log[Len(v.log)].res.kind = "pending"

\* dnsAlive: one of the three lookups settles
LookupSettles ==
    /\ pc = "verify"
    /\ \E o \in DnsOutcomes :
         \/ vf.a = "pending" /\ vf' = [vf EXCEPT !.a = o]
         \/ vf.aaaa = "pending" /\ vf' = [vf EXCEPT !.aaaa = o]
         \/ vf.mx = "pending" /\ vf' = [vf EXCEPT !.mx = o]
    /\ UNCHANGED << pc, mainData, bdVars, rankVars, fn, fl, cr >>

\* dnsAlive: Promise.allSettled resolves and dnsAlive returns
DnsAliveReturns ==
    /\ pc = "verify"
    /\ ~vf.dnsDone
    /\ "pending" \notin {vf.a, vf.aaaa, vf.mx}
    /\ vf' = [vf EXCEPT !.dnsDone = TRUE,
                        !.dnsOk = DnsAliveOf(vf.a, vf.aaaa, vf.mx)]
    /\ UNCHANGED << pc, mainData, bdVars, rankVars, fn, fl, cr >>

\* httpAlive: axios.head / axios.get is called on the next URL
HttpSends ==
    /\ pc = "verify"
    /\ ~vf.httpDone
    /\ ~InFlight(vf)
    /\ vf' = [vf EXCEPT !.log = Append(vf.log,
                  [method |-> IF vf.phase = "head" THEN "HEAD" ELSE "GET",
                   url |-> Tries(vf.domain)[vf.k], res |-> HttpPending])]
    /\ UNCHANGED << pc, mainData, bdVars, rankVars, fn, fl, cr >>

\* httpAlive: the request in flight settles
HttpSettles ==
    /\ pc = "verify"
    /\ InFlight(vf)
    /\ \E res \in IF vf.phase = "head" THEN HeadOutcomes ELSE GetOutcomes :
         vf' = HttpStep(vf, res)
    /\ UNCHANGED << pc, mainData, bdVars, rankVars, fn, fl, cr >>

\* verify: Promise.all resolves and verify returns
VerifyReturns ==
    /\ pc = "verify"
    /\ vf.dnsDone /\ vf.httpDone
    /\ vf' = [vf EXCEPT !.done = TRUE,
                        !.result = verify(vf.domain,
                            [dns  |-> IF vf.dnsOk THEN {vf.domain} ELSE {},
                             http |-> IF vf.httpOk THEN {vf.domain} ELSE {}])]
    /\ pc' = "verifyDone"
    /\ UNCHANGED << mainData, bdVars, rankVars, fn, fl, cr >>

InitVerify ==
    /\ pc = "verify"
    /\ MainIdle
    /\ BDIdleInit
    /\ RankIdle
    /\ fn = NoCall
    /\ vf = [NoVerify EXCEPT !.domain = AcmeCom]
    /\ fl = NoFlight
    /\ cr = NoCrawl

NextVerify ==
    \/ LookupSettles
    \/ DnsAliveReturns
    \/ HttpSends
    \/ HttpSettles
    \/ VerifyReturns

SpecVerify == InitVerify /\ [][NextVerify]_vars

\* C13: for every combination of outcomes of the three lookups and of the
\* HTTP requests, verify returns a result and never stops short of it:
\* dnsOk is true exactly when at least one lookup succeeded with a
\* non-empty answer, whatever became of the other two; requests that all
\* ended in an error give httpOk = false; and ok is true exactly when dnsOk
\* or httpOk is.
C13_VerifyAlwaysReturns ==
    /\ ~vf.done => ENABLED NextVerify
    /\ vf.dnsDone => (vf.dnsOk <=> "answer" \in {vf.a, vf.aaaa, vf.mx})
    /\ (vf.httpDone /\ \A j \in DOMAIN vf.log : vf.log[j].res.kind = "error")
          => ~vf.httpOk
    /\ vf.done =>
          /\ vf.result # Null
          /\ vf.result.domain = vf.domain
          /\ vf.result.dnsOk <=> "answer" \in {vf.a, vf.aaaa, vf.mx}
          /\ vf.result.httpOk <=> vf.httpOk
          /\ vf.result.ok <=> (vf.result.dnsOk \/ vf.result.httpOk)

\* verify returned ok although the MX lookup and every HTTP request ended
\* in an error: the A lookup answered
C13_Witness ==
    /\ vf.done
    /\ vf.a = "answer" /\ vf.aaaa = "empty" /\ vf.mx = "error"
    /\ Len(vf.log) = 8
    /\ \A j \in DOMAIN vf.log : vf.log[j].res.kind = "error"
    /\ vf.result.ok /\ vf.result.dnsOk /\ ~vf.result.httpOk

\* the request failed: a HEAD that ended in an error or got a status
\* outside 1..599, a GET that ended in an error or got neither a body
\* longer than 100 characters nor a status in 200..399
RequestFailed(q) ==
    IF q.method = "HEAD"
    THEN q.res.kind = "error" \/ (q.res.kind = "response" /\ ~(q.res.status \in 1..599))
    ELSE \/ q.res.kind = "error"
         \/ /\ q.res.kind = "response"
            /\ ~(q.res.isString /\ q.res.bodyLen > 100)
            /\ ~(q.res.status \in 200..399)

\* the requests are HEAD on the four URLs in order, then GET on the same
\* four in order, at most eight in all, and only the last one can be in
\* flight
RequestsInOrder ==
    /\ Len(vf.log) <= 8
    /\ \A j \in DOMAIN vf.log :
          /\ vf.log[j].method = IF j <= 4 THEN "HEAD" ELSE "GET"
          /\ vf.log[j].url =
               (CASE (j - 1) % 4 = 0 -> Https \o vf.domain
                  [] (j - 1) % 4 = 1 -> Https \o Www \o vf.domain
                  [] (j - 1) % 4 = 2 -> Http \o vf.domain
                  [] (j - 1) % 4 = 3 -> Http \o Www \o vf.domain)
          /\ j < Len(vf.log) => vf.log[j].res.kind # "pending"

\* C14 as stated: the requests are in the stated order, one at a time, at
\* most four HEAD and four GET; httpAlive returns alive at the first HEAD
\* that receives any response; a GET is sent only after four failed HEADs;
\* not-alive is returned only after all eight have failed.
C14_HeadAnyResponseThenGet ==
    /\ RequestsInOrder
    /\ \A j \in DOMAIN vf.log :
          (vf.log[j].method = "HEAD" /\ vf.log[j].res.kind = "response")
          => (j = Len(vf.log) /\ vf.httpDone /\ vf.httpOk)
    /\ \A j \in DOMAIN vf.log : j < Len(vf.log) => RequestFailed(vf.log[j])
    /\ (vf.httpDone /\ ~vf.httpOk) =>
          (Len(vf.log) = 8 /\ \A j \in DOMAIN vf.log : RequestFailed(vf.log[j]))

\* C14 amended: as stated, with 'the first HEAD that receives a response
\* with a status in 1..599' in place of 'any response'; a HEAD answered
\* with a status outside 1..599 counts as failed.
C14_HeadStatusInRangeThenGet ==
    /\ RequestsInOrder
    /\ \A j \in DOMAIN vf.log :
          (vf.log[j].res.kind # "pending" /\ ~RequestFailed(vf.log[j]))
          => (j = Len(vf.log) /\ vf.httpDone /\ vf.httpOk)
    /\ \A j \in DOMAIN vf.log : j < Len(vf.log) => RequestFailed(vf.log[j])
    /\ (vf.httpDone /\ vf.httpOk) =>
          (Len(vf.log) > 0 /\ ~RequestFailed(vf.log[Len(vf.log)]))
    /\ (vf.httpDone /\ ~vf.httpOk) =>
          (Len(vf.log) = 8 /\ \A j \in DOMAIN vf.log : RequestFailed(vf.log[j]))
    /\ (~vf.httpDone /\ Len(vf.log) = 8) => InFlight(vf)

\* after four failed HEAD requests, one of them answered with the status
\* 999, the third GET got a long body and httpAlive returned alive
C14_Witness ==
    /\ vf.httpDone /\ vf.httpOk
    /\ Len(vf.log) = 7
    /\ \E j \in 1..4 : vf.log[j].res.kind = "response"
    /\ vf.log[7].method = "GET"
    /\ vf.log[7].res.bodyLen > 100

(***************************************************************************)
(* One call of bestDomainFor with the verifications of a batch in flight   *)
(* together (specification SpecBatch): the batch starts, its verifications *)
(* complete in any order, Promise.all resolves, the pause elapses, and the *)
(* loop body goes on to the strong-hit test.                               *)
(***************************************************************************)
\* the most candidates alive in one call
MaxLive == 1

BatchCalls ==
    {[name |-> AbCdEfLtd, country |-> << >>], [name |-> Zed, country |-> UK],
     [name |-> AcmeLtd, country |-> France], [name |-> OnlyLtd, country |-> << >>]}

\* the network as the verifications of the batch found it
NetOfResults(res) ==
    [dns  |-> {c \in DOMAIN res : res[c].dnsOk},
     http |-> {c \in DOMAIN res : res[c].httpOk}]

\* batch.map(verify): the verifications of the next batch start
BatchStarts ==
    /\ pc = "batch"
    /\ ~bd.done
    /\ bd.i < Top(bd)
    /\ fl.stage = "loop"
    /\ fl' = [fl EXCEPT !.stage = "await",
                        !.inflight = Range(Batch(bd)),
                        !.res = << >>,
                        !.started = fl.started \o Batch(bd)]
    /\ UNCHANGED << pc, mainData, bdVars, rankVars, fn, vf, cr >>

\* one verification in flight completes
VerifyCompletes ==
    /\ pc = "batch"
    /\ fl.stage = "await"
    /\ \E c \in fl.inflight : \E alive \in BOOLEAN :
         /\ alive => AliveCount(bd.checked)
                       + Cardinality({d \in DOMAIN fl.res : fl.res[d].ok}) < MaxLive
         /\ fl' = [fl EXCEPT !.inflight = fl.inflight \ {c},
                             !.completed = fl.completed \cup {c},
                             !.res = (c :> verify(c, NetOf(IF alive THEN {c} ELSE {}, bdVia)))
                                     @@ fl.res]
    /\ UNCHANGED << pc, mainData, bdVars, rankVars, fn, vf, cr >>

\* await Promise.all(...) resolves: every verification of the batch has
\* completed; sleep(200) starts
BatchSettles ==
    /\ pc = "batch"
    /\ fl.stage = "await"
    /\ fl.inflight = {}
    /\ fl' = [fl EXCEPT !.stage = "sleep"]
    /\ UNCHANGED << pc, mainData, bdVars, rankVars, fn, vf, cr >>

\* sleep(200) elapses: the results are tested for a strong hit and the
\* loop returns or goes on
PauseElapses ==
    /\ pc = "batch"
    /\ fl.stage = "sleep"
    /\ bd' = BDStep(bd, NetOfResults(fl.res))
    /\ fl' = [fl EXCEPT !.stage = "loop", !.pauses = fl.pauses + 1]
    /\ UNCHANGED << pc, mainData, bdVia, bdArgs, rankVars, fn, vf, cr >>

\* the return after the loop
BatchReturns ==
    /\ pc = "batch"
    /\ ~bd.done
    /\ bd.i >= Top(bd)
    /\ fl.stage = "loop"
    /\ bd' = BDFinish(bd)
    /\ UNCHANGED << pc, mainData, bdVia, bdArgs, rankVars, fn, vf, fl, cr >>

InitBatch ==
    /\ pc = "batch"
    /\ MainIdle
    /\ RankIdle
    /\ fn = NoCall
    /\ vf = NoVerify
    /\ fl = NoFlight
    /\ bdVia \in Vias
    /\ bdArgs \in BatchCalls
    /\ bd = BDEnter(bdArgs.name, bdArgs.country)
    /\ cr = NoCrawl

NextBatch ==
    \/ BatchStarts
    \/ VerifyCompletes
    \/ BatchSettles
    \/ PauseElapses
    \/ BatchReturns

SpecBatch == InitBatch /\ [][NextBatch]_vars

\* C15: at most 40 candidates are verified, each at most once; at most 5
\* verifications are in flight at any time; and a batch starts only when
\* every verification of the batch before it has completed and the pause
\* after it has elapsed.
C15_BatchesOfFiveInTurn ==
    /\ [](/\ Len(fl.started) <= 40
          /\ \A j, k \in DOMAIN fl.started : fl.started[j] = fl.started[k] => j = k
          /\ Cardinality(fl.inflight) <= 5
          /\ fl.inflight \subseteq Range(fl.started)
          /\ fl.completed = Range(fl.started) \ fl.inflight)
    /\ [][fl'.started # fl.started =>
            /\ fl.inflight = {}
            /\ fl.completed = Range(fl.started)
            /\ fl.pauses * 5 >= Len(fl.started)
            /\ Len(fl'.started) - Len(fl.started) <= 5
            /\ fl'.inflight = Range(fl'.started) \ Range(fl.started)
       ]_vars

\* a call on a list longer than the cap has verified 40 candidates in
\* eight batches and returned
C15_Witness ==
    /\ pc = "batch"
    /\ bd.done
    /\ Len(bd.cands) > 40
    /\ Len(fl.started) = 40
    /\ fl.pauses = 8
    /\ fl.inflight = {}

(***************************************************************************)
(* discoverContacts, fetch by fetch: each await of the crawl is a step     *)
(* that issues a fetch and a step in which the fetch settles.              *)
(***************************************************************************)

\* a domain field whose host new URL rejects
BadHost == <<"a","c","m","e"," ","c","o">>

\* a homepage with more fresh same-origin links than the second loop
\* crawls, one of them twice, one already a seed and one of another origin
LinksHome ==
    [NoPage EXCEPT !.html = BrandHome,
                   !.links = << <<"/","j","o","b","s">>,
                                <<"c","o","n","t","a","c","t">>,
                                <<"/","a">>,
                                <<"/","j","o","b","s">>,
                                <<"h","t","t","p","s",":","/","/","o","t","h","e","r",".","e","x","a","m","p","l","e","/">>,
                                <<"/","b">>,
                                <<"/","c">> >>]

\* the sites the crawl is run on: those of the domain, and those whose
\* homepage is LinksHome, with a page behind /a and /c and none behind /b
CrawlSites(dom) ==
    Sites(dom) \cup
    {[pages |-> (BaseUrl(dom) :> LinksHome)
                @@ ((BaseUrl(dom) \o <<"c","o","n","t","a","c","t">>) :> contact)
                @@ ((BaseUrl(dom) \o <<"j","o","b","s">>) :> jobs)
                @@ ((BaseUrl(dom) \o <<"a">>) :> contact)
                @@ ((BaseUrl(dom) \o <<"c">>) :> jobs),
      home2 |-> LinksHome] :
        contact \in ContactPages(dom), jobs \in JobsPages}

\* the fetch the crawl awaits, if any: the last of the log, not yet settled
Pending(c) == Len(c.log) > 0 /\ ~c.log[Len(c.log)].settled

\* a fetch is issued
Issue(c, url, kind) ==
    Append(c.log, [url |-> url, kind |-> kind, settled |-> FALSE, ok |-> FALSE])

\* the awaited fetch settles, with markup or with ''
Settle(c, page) ==
    [c.log EXCEPT ![Len(c.log)] = [@ EXCEPT !.settled = TRUE, !.ok = Len(page.html) > 0]]

\* the seed the first loop is at
SeedUrl(c) == makeAbs(c.domain, SeedPaths[c.k])

\* if (!url || seen.has(url)) continue
SeedSkipped ==
    /\ pc = "crawl"
    /\ cr.stage = "seeds"
    /\ ~Pending(cr)
    /\ cr.k <= Len(SeedPaths)
    /\ (Len(SeedUrl(cr)) = 0 \/ SeedUrl(cr) \in cr.st.seen)
    /\ cr' = [cr EXCEPT !.k = @ + 1]
    /\ UNCHANGED << pc, mainData, bdVars, rankVars, fn, vf, fl >>

\* await extractContactsFromUrl(url) of the first loop is entered
SeedFetchStarts ==
    /\ pc = "crawl"
    /\ cr.stage = "seeds"
    /\ ~Pending(cr)
    /\ cr.k <= Len(SeedPaths)
    /\ Len(SeedUrl(cr)) > 0
    /\ SeedUrl(cr) \notin cr.st.seen
    /\ cr' = [cr EXCEPT !.log = Issue(cr, SeedUrl(cr), "seed")]
    /\ UNCHANGED << pc, mainData, bdVars, rankVars, fn, vf, fl >>

\* the seed's fetch settles; its contacts are added and the pause elapses
SeedFetchSettles ==
    /\ pc = "crawl"
    /\ cr.stage = "seeds"
    /\ Pending(cr)
    /\ cr' = [cr EXCEPT !.st  = Visit(cr.st, SeedUrl(cr), cr.site),
                        !.log = Settle(cr, Fetch(cr.site, SeedUrl(cr))),
                        !.k   = @ + 1]
    /\ UNCHANGED << pc, mainData, bdVars, rankVars, fn, vf, fl >>

\* await getHtml(baseUrl) is entered, after the last seed
HomeFetchStarts ==
    /\ pc = "crawl"
    /\ cr.stage = "seeds"
    /\ ~Pending(cr)
    /\ cr.k > Len(SeedPaths)
    /\ cr' = [cr EXCEPT !.stage = "home",
                        !.log = Issue(cr, BaseUrl(cr.domain), "home")]
    /\ UNCHANGED << pc, mainData, bdVars, rankVars, fn, vf, fl >>

\* the homepage's second fetch settles: if (homeHtml) { internal ...; count = 0 }
HomeFetchSettles ==
    /\ pc = "crawl"
    /\ cr.stage = "home"
    /\ Pending(cr)
    /\ \E home \in {IF ValidHost(cr.domain) THEN cr.site.home2 ELSE NoPage} :
         cr' = [cr EXCEPT !.log = Settle(cr, home),
                          !.brandText = home.html,
                          !.stage = IF Len(home.html) > 0 THEN "internal" ELSE "return",
                          !.internal = IF Len(home.html) > 0
                                       THEN InternalLinks(cr.domain, home.links)
                                       ELSE << >>,
                          !.st = [@ EXCEPT !.count = 0]]
    /\ UNCHANGED << pc, mainData, bdVars, rankVars, fn, vf, fl >>

\* if (seen.has(u)) continue
InternalSkipped ==
    /\ pc = "crawl"
    /\ cr.stage = "internal"
    /\ ~Pending(cr)
    /\ Len(cr.internal) > 0
    /\ cr.st.count < MaxInternal
    /\ Head(cr.internal) \in cr.st.seen
    /\ cr' = [cr EXCEPT !.internal = Tail(@)]
    /\ UNCHANGED << pc, mainData, bdVars, rankVars, fn, vf, fl >>

\* await extractContactsFromUrl(u) of the second loop is entered
InternalFetchStarts ==
    /\ pc = "crawl"
    /\ cr.stage = "internal"
    /\ ~Pending(cr)
    /\ Len(cr.internal) > 0
    /\ cr.st.count < MaxInternal
    /\ Head(cr.internal) \notin cr.st.seen
    /\ cr' = [cr EXCEPT !.log = Issue(cr, Head(cr.internal), "internal")]
    /\ UNCHANGED << pc, mainData, bdVars, rankVars, fn, vf, fl >>

\* the link's fetch settles; its contacts are added, count++ and the pause
InternalFetchSettles ==
    /\ pc = "crawl"
    /\ cr.stage = "internal"
    /\ Pending(cr)
    /\ cr' = [cr EXCEPT !.st  = Visit(cr.st, Head(cr.internal), cr.site),
                        !.log = Settle(cr, Fetch(cr.site, Head(cr.internal))),
                        !.internal = Tail(@)]
    /\ UNCHANGED << pc, mainData, bdVars, rankVars, fn, vf, fl >>

\* return { email: pickBestEmail(...), phone: pickBestPhone(...), brandText }
CrawlReturns ==
    /\ pc = "crawl"
    /\ ~Pending(cr)
    /\ \/ cr.stage = "return"
       \/ cr.stage = "internal" /\ (Len(cr.internal) = 0 \/ cr.st.count >= MaxInternal)
    /\ cr' = [cr EXCEPT !.stage = "done",
                        !.result = [email |-> pickBestEmail(cr.st.emails, cr.domain),
                                    phone |-> pickBestPhone(cr.st.phones)]]
    /\ UNCHANGED << pc, mainData, bdVars, rankVars, fn, vf, fl >>

InitCrawl ==
    /\ pc = "crawl"
    /\ MainIdle
    /\ BDIdleInit
    /\ RankIdle
    /\ fn = NoCall
    /\ vf = NoVerify
    /\ fl = NoFlight
    /\ \E dom \in {AcmeCom, BadHost} : \E site \in CrawlSites(dom) :
         cr = [NoCrawl EXCEPT !.domain = dom, !.site = site]

NextCrawl ==
    \/ SeedSkipped
    \/ SeedFetchStarts
    \/ SeedFetchSettles
    \/ HomeFetchStarts
    \/ HomeFetchSettles
    \/ InternalSkipped
    \/ InternalFetchStarts
    \/ InternalFetchSettles
    \/ CrawlReturns

SpecCrawl == InitCrawl /\ [][NextCrawl]_vars

\* the fetches of the log on which contact extraction is run
Extractions(c) == SelectSeq(c.log, LAMBDA f : f.kind # "home")

\* the seed URLs of the call
SeedUrls(c) == {makeAbs(c.domain, SeedPaths[k]) : k \in DOMAIN SeedPaths} \ {<< >>}

\* everything the settled extractions found on pages that were fetched
FoundOn(c, field) ==
    UNION {Range(extractContacts(Fetch(c.site, c.log[j].url))[field]) :
             j \in {i \in DOMAIN c.log : c.log[i].kind # "home" /\ c.log[i].settled /\ c.log[i].ok}}

\* the crawl returned by taking each step of the two loops
CrawlAgreesWithCall ==
    cr.stage = "done" =>
        LET d == discoverContacts(cr.domain, cr.site)
        IN  /\ cr.result.email = d.email
            /\ cr.result.phone = d.phone
            /\ cr.brandText = d.brandText
            /\ cr.st.seen = d.visited

\* C16: in a discoverContacts call, contact extraction is run on no
\* absolute URL twice; it is run on at most the 10 seed URLs and then on at
\* most 3 same-origin homepage links not visited before; an internal link
\* is crawled only after all seeds; at most one fetch is in flight; and a
\* failed fetch adds nothing to the found sets and the crawl goes on.
C16_CrawlOncePerUrlInOrder ==
    LET ex == Extractions(cr)
        seedAt == {j \in DOMAIN cr.log : cr.log[j].kind = "seed"}
        intAt  == {j \in DOMAIN cr.log : cr.log[j].kind = "internal"}
    IN  /\ \A i, j \in DOMAIN ex : ex[i].url = ex[j].url => i = j
        /\ Cardinality(seedAt) <= 10
        /\ \A j \in seedAt : cr.log[j].url \in SeedUrls(cr)
        /\ Cardinality(intAt) <= 3
        /\ \A j \in intAt :
             /\ StartsWith(cr.log[j].url, BaseUrl(cr.domain))
             /\ \A i \in 1..(j - 1) : cr.log[i].kind = "home" \/ cr.log[i].url # cr.log[j].url
             /\ \A i \in seedAt : i < j
             /\ SeedUrls(cr) \subseteq {cr.log[i].url : i \in seedAt}
        /\ \A j \in DOMAIN cr.log : ~cr.log[j].settled => j = Len(cr.log)
        /\ Range(cr.st.emails) = FoundOn(cr, "emails")
        /\ Range(cr.st.phones) = FoundOn(cr, "phones")
        /\ cr.stage = "done" /\ ValidHost(cr.domain) =>
             SeedUrls(cr) = {cr.log[i].url : i \in seedAt}

\* a crawl has returned after a seed's fetch failed, having run extraction
\* on all ten seeds and on three fresh links of a homepage that had more,
\* skipping the link that was a seed
C16_Witness ==
    /\ pc = "crawl"
    /\ cr.stage = "done"
    /\ Cardinality({j \in DOMAIN cr.log : cr.log[j].kind = "seed"}) = 10
    /\ Cardinality({j \in DOMAIN cr.log : cr.log[j].kind = "internal"}) = 3
    /\ Len(InternalLinks(cr.domain, cr.site.home2.links)) > 4
    /\ \E j \in DOMAIN cr.log : cr.log[j].kind = "seed" /\ cr.log[j].settled /\ ~cr.log[j].ok
    /\ \E j \in DOMAIN cr.log : cr.log[j].kind = "internal" /\ ~cr.log[j].ok
    /\ Len(cr.st.emails) > 0

(***************************************************************************)
(* processRecord and the values the record has on entry.                   *)
(***************************************************************************)

\* the four value fields and the record's value of each
ValueFields == {FDomain, FEmail, FPhone, FIndustry}

RecordValue(f) ==
    CASE f = FDomain -> rec.domain [] f = FEmail -> rec.email
      [] f = FPhone -> rec.phone [] f = FIndustry -> rec.industry

\* C17: for each of domain, email, phone and industry, a field that is
\* non-blank on entry is in the patch with exactly the record's value, and
\* a field whose patch value is not the record's value was blank on entry.
C17_PatchKeepsRecordValues ==
    PatchBuilt =>
        \A f \in ValueFields :
            /\ ~FieldBlank(RecordValue(f)) =>
                   f \in DOMAIN patch /\ Text(patch[f]) = RecordValue(f)
            /\ (f \in DOMAIN patch /\ Text(patch[f]) # RecordValue(f)) =>
                   FieldBlank(RecordValue(f))

\* what the patch carries for a non-blank field is the value getField read
PatchCarriesReadValues ==
    PatchBuilt =>
        \A f \in ValueFields :
            /\ ~FieldBlank(RecordValue(f)) =>
                   f \in DOMAIN patch /\ patch[f] = getField(RecordValue(f))
            /\ (f \in DOMAIN patch /\ patch[f] # getField(RecordValue(f))) =>
                   FieldBlank(RecordValue(f))

\* a patch was built for a record with a domain and an email, in which
\* contact discovery found a phone and the industry was derived
PatchFillsOnlyBlanks ==
    /\ PatchBuilt
    /\ rec.domain = Text(AcmeCom) /\ rec.email = Text(OldEmail)
    /\ FieldBlank(rec.phone) /\ FieldBlank(rec.industry)
    /\ patch[FDomain] = AcmeCom /\ patch[FEmail] = OldEmail
    /\ FPhone \in DOMAIN patch /\ FIndustry \in DOMAIN patch

(***************************************************************************)
(* The early return of bestDomainFor and the scores left unverified        *)
(* (specification SpecBD).                                                  *)
(***************************************************************************)

\* the positions of the capped set that were never verified
Unverified(b) == (Len(b.checked) + 1)..Top(b)

\* C18: a non-null pick, returned early or after the capped set is
\* exhausted, scores at least as high as every alive verified candidate
\* and as every candidate of the capped set that was never verified,
\* however it would have answered; and a pick returned early ends in
\* '.co.uk' or '.com'.
C18_PickScoresHighestInCappedSet ==
    (bd.done /\ bd.pick # Null) =>
        /\ \A k \in DOMAIN bd.checked :
              bd.checked[k].ok => score(bd.pick.domain) >= score(bd.checked[k].domain)
        /\ \A k \in Unverified(bd) : score(bd.pick.domain) >= score(bd.cands[k])
        /\ bd.early =>
              EndsWith(bd.pick.domain, DotCoUk) \/ EndsWith(bd.pick.domain, DotCom)

\* bestDomainFor returned early from its first batch, whose best-scored
\* candidate did not answer, leaving candidates of the capped set
\* unverified, one of them with the pick's score
C18_Witness ==
    /\ bd.done
    /\ bd.early
    /\ bd.pick # Null
    /\ Len(bd.checked) = BatchLen
    /\ ~bd.checked[1].ok
    /\ Unverified(bd) # {}
    /\ \E k \in Unverified(bd) : score(bd.cands[k]) = score(bd.pick.domain)

====
